---------------------------- MODULE Spec2Model ----------------------------
(***************************************************************************)
(* Model of the request signer of aiocos (aiocos/auth.py), of the          *)
(* configuration object that builds it (aiocos/utils.py, CosConfig) and of *)
(* the request hook that applies it (aiocos/reqrep.py, COSRequest); of the  *)
(* XML codec (aiocos/utils.py, dict2xml and xml2dict) with the override    *)
(* rules the client passes to it; and of the service error and its         *)
(* accessors (aiocos/errors.py, CosServiceError); of the operations of the  *)
(* client (aiocos/client.py, CosS3Client) with the helpers they call       *)
(* (aiocos/utils.py) and the response (aiocos/reqrep.py, COSResponse); of   *)
(* close and wait_close of the client; of the download of a body           *)
(* (aiocos/utils.py, StreamBody); and of concurrent callers of the signer  *)
(* and the codec.  Each part has its own specification: Spec, SpecXml,     *)
(* SpecError, SpecClient, SpecClose, SpecStream and SpecShared.            *)
(*                                                                         *)
(* A Python str is a sequence of one-character strings, so that lower(),   *)
(* sorted(), quote(), urlencode() and '%d' formatting are computed the way *)
(* the library computes them.  A dict is the sequence of its <<key, value>> *)
(* pairs in insertion order, with pairwise distinct keys.  The text is     *)
(* ASCII, where str.encode() yields one byte per character.                *)
(***************************************************************************)
EXTENDS Integers, Sequences, FiniteSets, TLC

-----------------------------------------------------------------------------
(* Bounds of the model *)

\* largest number of headers given to one request or one get_auth call
MaxHeaders == 2
\* largest number of query parameters given to one request or get_auth call
MaxParams == 2
\* resolution of the float returned by time(): samples per second
TicksPerSecond == 2

-----------------------------------------------------------------------------
(* Characters and text *)

\* the printable ASCII characters with code points 32..95, in code point order
AsciiLow ==
    << " ", "!", "\"", "#", "$", "%", "&", "'", "(", ")", "*", "+", ",", "-", ".", "/",
       "0", "1", "2", "3", "4", "5", "6", "7", "8", "9", ":", ";", "<", "=", ">", "?",
       "@", "A", "B", "C", "D", "E", "F", "G", "H", "I", "J", "K", "L", "M", "N", "O",
       "P", "Q", "R", "S", "T", "U", "V", "W", "X", "Y", "Z", "[", "\\", "]", "^", "_" >>

\* the printable ASCII characters with code points 97..126 (the grave accent,
\* code point 96, is left out of the alphabet)
AsciiHigh ==
    << "a", "b", "c", "d", "e", "f", "g", "h", "i", "j", "k", "l", "m", "n", "o",
       "p", "q", "r", "s", "t", "u", "v", "w", "x", "y", "z", "{", "|", "}", "~" >>

Chars == {AsciiLow[i] : i \in 1..Len(AsciiLow)}
           \cup {AsciiHigh[i] : i \in 1..Len(AsciiHigh)} \cup {"\n"}

\* ord(c): the code point of a character
OrdTable == [c \in Chars |->
               IF c = "\n" THEN 10
               ELSE IF \E i \in 1..Len(AsciiLow) : AsciiLow[i] = c
                    THEN 31 + (CHOOSE i \in 1..Len(AsciiLow) : AsciiLow[i] = c)
                    ELSE 96 + (CHOOSE i \in 1..Len(AsciiHigh) : AsciiHigh[i] = c)]

Ord(c) == OrdTable[c]

\* chr(n) for a printable code point other than 96
Chr(n) == IF n <= 95 THEN AsciiLow[n - 31] ELSE AsciiHigh[n - 96]

Digits == {Chr(n) : n \in 48..57}
UpperLetters == {Chr(n) : n \in 65..90}
LowerLetters == {Chr(n) : n \in 97..122}

\* str.lower() on one character
LowerChar(c) == IF c \in UpperLetters THEN Chr(Ord(c) + 32) ELSE c

\* str.lower()
lower(s) == [i \in 1..Len(s) |-> LowerChar(s[i])]

\* str.startswith(prefix)
startswith(s, prefix) ==
    /\ Len(s) >= Len(prefix)
    /\ \A i \in 1..Len(prefix) : s[i] = prefix[i]

\* s < t for two str, as Python compares them: by code point, then by length
StrLess(s, t) ==
    \E k \in 1..(Len(t)) :
        /\ \A i \in 1..(k - 1) : i <= Len(s) /\ s[i] = t[i]
        /\ \/ Len(s) = k - 1
           \/ Len(s) >= k /\ Ord(s[k]) < Ord(t[k])

\* sep.join(parts)
RECURSIVE join(_, _)
join(sep, parts) ==
    IF parts = <<>> THEN <<>>
    ELSE IF Len(parts) = 1 THEN parts[1]
    ELSE parts[1] \o sep \o join(sep, Tail(parts))

\* the decimal digits of a natural number
RECURSIVE DecNat(_)
DecNat(n) == IF n < 10 THEN <<Chr(48 + n)>>
             ELSE DecNat(n \div 10) \o <<Chr(48 + (n % 10))>>

\* int(x) of the float x = ticks / TicksPerSecond: truncation toward zero
TruncSeconds(ticks) ==
    IF ticks >= 0 THEN ticks \div TicksPerSecond
    ELSE -((-ticks) \div TicksPerSecond)

\* the format '%d' applied to the float x = ticks / TicksPerSecond
FormatD(ticks) ==
    LET n == TruncSeconds(ticks)
    IN  IF n >= 0 THEN DecNat(n) ELSE <<"-">> \o DecNat(-n)

-----------------------------------------------------------------------------
(* urllib.parse and builtins used by the signer *)

HexDigits == <<"0", "1", "2", "3", "4", "5", "6", "7",
               "8", "9", "A", "B", "C", "D", "E", "F">>

\* the characters urllib.parse.quote never escapes
AlwaysSafe == UpperLetters \cup LowerLetters \cup Digits \cup {"_", ".", "-", "~"}

\* urllib.parse.quote(s, safe): every character outside AlwaysSafe and safe
\* becomes '%' followed by the two upper-case hex digits of its byte
RECURSIVE quote(_, _)
quote(s, safe) ==
    IF s = <<>> THEN <<>>
    ELSE LET c == Head(s)
             q == IF c \in AlwaysSafe \cup safe THEN <<c>>
                  ELSE <<"%", HexDigits[(Ord(c) \div 16) + 1],
                              HexDigits[(Ord(c) % 16) + 1]>>
         IN  q \o quote(Tail(s), safe)

\* str.replace(old, new) for a one-character old
RECURSIVE replace(_, _, _)
replace(s, old, new) ==
    IF s = <<>> THEN <<>>
    ELSE (IF Head(s) = old THEN new ELSE <<Head(s)>>)
             \o replace(Tail(s), old, new)

\* the text urlencode builds from the quoted pairs: k '=' v, joined by '&'
JoinPairs(quoted) ==
    join(<<"&">>,
         [i \in 1..Len(quoted) |-> quoted[i][1] \o <<"=">> \o quoted[i][2]])

\* a sequence without its i-th element
RemoveAt(s, i) == [j \in 1..(Len(s) - 1) |-> IF j < i THEN s[j] ELSE s[j + 1]]

\* sorted() that leaves the names in insertion order
sorted_unsorted(ks) == ks

\* sorted(d.keys()): the str of the sequence in ascending order
RECURSIVE sorted(_)
sorted(ks) ==
    IF ks = <<>> THEN <<>>
    ELSE LET i == CHOOSE i \in 1..Len(ks) :
                      \A j \in 1..Len(ks) : ~StrLess(ks[j], ks[i])
         IN  <<ks[i]>> \o sorted(RemoveAt(ks, i))

\* (k1, v1) < (k2, v2) for two tuples of str
ItemLess(a, b) == \/ StrLess(a[1], b[1])
                  \/ a[1] = b[1] /\ StrLess(a[2], b[2])

\* sorted(d.items()): the (key, value) tuples in ascending order
RECURSIVE sorted_items(_)
sorted_items(items) ==
    IF items = <<>> THEN <<>>
    ELSE LET i == CHOOSE i \in 1..Len(items) :
                      \A j \in 1..Len(items) : ~ItemLess(items[j], items[i])
         IN  <<items[i]>> \o sorted_items(RemoveAt(items, i))

\* d.keys() of a dict
keys(d) == [i \in 1..Len(d) |-> d[i][1]]

\* a d[k] = v that leaves the value of an existing key alone
dict_set_keep(d, k, v) ==
    IF \E i \in 1..Len(d) : d[i][1] = k THEN d ELSE Append(d, <<k, v>>)

\* d[k] = v on a dict: replaces the value of an existing key in place,
\* appends a new key
dict_set(d, k, v) ==
    IF \E i \in 1..Len(d) : d[i][1] = k
    THEN [i \in 1..Len(d) |-> IF d[i][1] = k THEN <<k, v>> ELSE d[i]]
    ELSE Append(d, <<k, v>>)

\* dict(m) for a multidict m: one entry per key, in the order of the first
\* occurrences, holding m[k], the first value of the key
RECURSIVE dict_of_mapping(_)
dict_of_mapping(pairs) ==
    IF pairs = <<>> THEN <<>>
    ELSE LET n == Len(pairs)
             rest == dict_of_mapping(SubSeq(pairs, 1, n - 1))
         IN  IF \E i \in 1..Len(rest) : rest[i][1] = pairs[n][1]
             THEN rest
             ELSE Append(rest, pairs[n])

-----------------------------------------------------------------------------
(* hashlib and hmac *)

\* sha1(s).hexdigest(): the digest is an opaque text that determines, and is
\* determined by, the hashed message
sha1(s) == <<"SHA1[">> \o s \o <<"]SHA1">>

\* hmac.new(key, s, sha1).hexdigest(): an opaque text that determines, and is
\* determined by, the key and the message
hmac_new(key, s) == <<"HMAC[">> \o key \o <<"][">> \o s \o <<"]HMAC">>

-----------------------------------------------------------------------------
(* class Auth *)

\* Auth.__init__
AuthInit(secretid, secretkey, expire) ==
    [secretid |-> secretid, secretkey |-> secretkey, expire |-> expire]

\* Auth._sha1
Auth_sha1(s) == sha1(s)

\* Auth._quote as quote_plus would encode: a space becomes '+'
Auth_quote_plus(s) ==
    replace(quote(s, {"-", "_", ".", "~", " "}), " ", <<"+">>)

\* Auth._quote: quote(s, '-_.~')
Auth_quote(s) == quote(s, {"-", "_", ".", "~"})

\* Auth._hmac_sha1 that drops its key argument and always keys with the
\* secret key
Auth_hmac_sha1_secret(self, s, key) == hmac_new(self.secretkey, s)

\* Auth._hmac_sha1: key = key or self.secretkey (None and '' are <<>>)
Auth_hmac_sha1(self, s, key) ==
    LET k == IF key # <<>> THEN key ELSE self.secretkey
    IN  hmac_new(k, s)

\* the predicate _filter of Auth._filter_headers
FilterName(x) == x = <<"H", "o", "s", "t">> \/ startswith(x, <<"x">>)

\* Auth._filter_headers: {k.lower(): v for k, v in headers.items() if _filter(k)}
RECURSIVE filter_headers(_)
filter_headers(headers) ==
    IF headers = <<>> THEN <<>>
    ELSE LET n == Len(headers)
             rest == filter_headers(SubSeq(headers, 1, n - 1))
         IN  IF FilterName(headers[n][1])
             THEN dict_set(rest, lower(headers[n][1]), headers[n][2])
             ELSE rest

\* a quote_via that percent-encodes the ';' of the Authorization fields, as
\* the default quote_via of urlencode does
Raw_quoted(x) == replace(x, ";", <<"%", "3", "B">>)

\* the quote_via of the last urlencode of get_auth: lambda x, *args, **kw: x
Raw(x) == x

\* urllib.parse.urlencode(query, quote_via=self._quote) for a sequence of
\* (str, str) pairs
urlencode_quote(query) ==
    JoinPairs([i \in 1..Len(query) |->
                 <<Auth_quote(query[i][1]), Auth_quote(query[i][2])>>])

\* urllib.parse.urlencode(options, quote_via=lambda x, *args, **kw: x)
urlencode_raw(query) ==
    JoinPairs([i \in 1..Len(query) |-> <<Raw(query[i][1]), Raw(query[i][2])>>])

\* the time window without the 60 s of clock-skew tolerance
SignTime_noSkew(self, expired, t) ==
    FormatD(t) \o <<";">> \o FormatD(t + self.expire * TicksPerSecond)

\* the value of q-sign-time and q-key-time computed by get_auth from the one
\* sample t of time(), in ticks: '%d;%d' % (t - 60, t + self.expire)
SignTime(self, expired, t) ==
    FormatD(t - 60 * TicksPerSecond) \o <<";">>
        \o FormatD(t + self.expire * TicksPerSecond)

\* the local http_str of get_auth
HttpString(method, url, headers, params) ==
    join(<<"\n">>,
         << method,
            url,
            replace(urlencode_quote(sorted_items(params)),
                    "+", <<"%", "2", "B">>),
            urlencode_quote(sorted_items(headers)) >>) \o <<"\n">>

\* the local s_str of get_auth
StringToSign(algorithm, sign_time, http_str) ==
    join(<<"\n">>, <<algorithm, sign_time, Auth_sha1(http_str)>>) \o <<"\n">>

\* the dict options of get_auth once all its values are set
Options(self, sign_time, headers, params, sig) ==
    << <<<<"q", "-", "s", "i", "g", "n", "-", "a", "l", "g", "o", "r", "i", "t", "h", "m">>, <<"s", "h", "a", "1">>>>,
       <<<<"q", "-", "a", "k">>, self.secretid>>,
       <<<<"q", "-", "s", "i", "g", "n", "-", "t", "i", "m", "e">>, sign_time>>,
       <<<<"q", "-", "k", "e", "y", "-", "t", "i", "m", "e">>, sign_time>>,
       <<<<"q", "-", "h", "e", "a", "d", "e", "r", "-", "l", "i", "s", "t">>, join(<<";">>, sorted(keys(headers)))>>,
       <<<<"q", "-", "u", "r", "l", "-", "p", "a", "r", "a", "m", "-", "l", "i", "s", "t">>, join(<<";">>, sorted(keys(params)))>>,
       <<<<"q", "-", "s", "i", "g", "n", "a", "t", "u", "r", "e">>, sig>> >>

\* Auth.get_auth with t the value returned by time(); the result is the
\* returned text (auth) together with the locals it was computed from
get_auth(self, method, url, expired, headers, params, t) ==
    LET sign_time == SignTime(self, expired, t)
        skey      == Auth_hmac_sha1(self, sign_time, <<>>)
        http_str  == HttpString(method, url, headers, params)
        s_str     == StringToSign(<<"s", "h", "a", "1">>, sign_time, http_str)
        sig       == Auth_hmac_sha1(self, s_str, skey)
        options   == Options(self, sign_time, headers, params, sig)
    IN  [ method |-> method, url |-> url, expired |-> expired,
          headers |-> headers, params |-> params, t |-> t,
          skey |-> skey, http_str |-> http_str, s_str |-> s_str,
          options |-> options,
          auth |-> urlencode_raw(options) ]

-----------------------------------------------------------------------------
(* class CosConfig *)

\* CosConfig.__init__ (Region and Token take no part in signing)
CosConfigInit(Secret_id, Secret_key, auth_expire) ==
    [secret_id |-> Secret_id, secret_key |-> Secret_key, auth_expire |-> 100]

\* CosConfig.get_auth
CosConfig_get_auth(self) ==
    AuthInit(self.secret_id, self.secret_key, self.auth_expire)

-----------------------------------------------------------------------------
(* Inputs *)

SecretIds == { <<"A", "K", "I", "D">> }
SecretKeys == { <<"s", "k", "1">> }
\* the expiry a caller configures: the default and another value
Expires == {100, 300}
\* the expired argument of a direct call: the default Expired=300 of
\* CosS3Client.get_auth and get_presigned_download_url
DirectExpired == {300}

\* the values time() can return, in ticks: 1000 s and the fractions after it
Times == {1000 * TicksPerSecond + k : k \in 0..(TicksPerSecond - 1)}

\* request.method is upper case (aiohttp upper-cases it); the direct caller
\* get_presigned_download_url passes 'GET'
RequestMethods == { <<"G", "E", "T">> }
DirectMethods == { <<"G", "E", "T">> }
Paths == { <<"/", "k">> }

HeaderPool ==
    << <<<<"H", "o", "s", "t">>, <<"b", ".", "c", "o", "s", ".", "r">>>>,
       <<<<"h", "o", "s", "t">>, <<"h">>>>,
       <<<<"X", "-", "C", "u", "s", "t", "o", "m">>, <<"a", " ", "b">>>>,
       <<<<"x", "-", "c", "o", "s", "-", "a", "c", "l">>, <<"p", "+", "r">>>>,
       <<<<"A", "u", "t", "h", "o", "r", "i", "z", "a", "t", "i", "o", "n">>, <<"o", "l", "d">>>>,
       <<<<"C", "o", "n", "t", "e", "n", "t", "-", "T", "y", "p", "e">>, <<"t", "/", "x">>>> >>

ParamPool ==
    << <<<<"b">>, <<"2", " ", "+">>>>,
       <<<<"a">>, <<"1">>>>,
       <<<<"a">>, <<"-", "_", ".", "~">>>> >>

\* the sequences of at most n distinct entries of a pool, in every order
Picks(pool, n) ==
    { [i \in 1..Len(ix) |-> pool[ix[i]]] :
        ix \in { s \in UNION { [1..m -> 1..Len(pool)] : m \in 0..n } :
                    \A i, j \in 1..Len(s) : i # j => s[i] # s[j] } }

\* the pairs of a sequence have pairwise distinct keys: it is a dict
IsDict(d) == \A i, j \in 1..Len(d) : i # j => d[i][1] # d[j][1]

HeaderDicts == { d \in Picks(HeaderPool, MaxHeaders) : IsDict(d) }
ParamDicts == { d \in Picks(ParamPool, MaxParams) : IsDict(d) }
\* request.url.query is a multidict: a key may occur more than once
Queries == Picks(ParamPool, MaxParams)

-----------------------------------------------------------------------------
(* State *)

VARIABLES
    config,     \* <<>>, or <<c>>: the CosConfig object c.obj and the
                \* auth_expire argument c.auth_expire it was built with
    auth,       \* <<>> (None), or <<a>>: the Auth object a.obj, the class
                \* a.origin that built it and the expiry a.expire_arg asked for
    request,    \* <<>>, or <<r>>: the COSRequest being prepared or sent
    call,       \* <<>>, or <<c>>: the last call of Auth.get_auth, its
                \* arguments, locals and result, and c.via, how it was reached
    enc,        \* <<>>, or <<e>>: the last call of dict2xml, its arguments
                \* e.d, e.root, e.rules and its outcome e.result
    dec,        \* <<>>, or <<x>>: the last call of xml2dict, its arguments
                \* x.xml, x.lst, its outcome x.result and x.via, where the
                \* text came from
    error,      \* <<>>, or <<e>>: the CosServiceError e.obj raised last, the
                \* accessor e.accessor called on it last and its outcome
    shared,     \* <<>>, or <<s>>: what concurrent callers share, the
                \* credentials s.self of one Auth, the arguments s.headers,
                \* s.params and s.d they all pass, the default arguments
                \* s.rules of dict2xml and s.lst of xml2dict, and s.calls,
                \* the call of each caller
    op,         \* <<>>, or <<o>>: the last operation called on the client,
                \* its arguments, the response it met and its outcome
    closer,     \* CosS3Client._close_handler, the tasks close() has started
                \* and the calls of wait_close() under way or returned
    download    \* <<>>, or <<d>>: the call of StreamBody.get_stream_to_file
                \* under way or finished

sign_vars == <<config, auth, request, call>>
codec_vars == <<enc, dec>>
error_vars == <<error>>
client_vars == <<op>>
close_vars == <<closer>>
stream_vars == <<download>>
shared_vars == <<shared>>

all_but_sign == <<codec_vars, error_vars, client_vars, close_vars, stream_vars,
    shared_vars>>
all_but_codec == <<sign_vars, error_vars, client_vars, close_vars, stream_vars,
    shared_vars>>
all_but_error == <<sign_vars, codec_vars, client_vars, close_vars, stream_vars,
    shared_vars>>
all_but_client == <<sign_vars, codec_vars, error_vars, close_vars, stream_vars,
    shared_vars>>
all_but_close == <<sign_vars, codec_vars, error_vars, client_vars, stream_vars,
    shared_vars>>
all_but_stream == <<sign_vars, codec_vars, error_vars, client_vars, close_vars,
    shared_vars>>
all_but_shared == <<sign_vars, codec_vars, error_vars, client_vars, close_vars,
    stream_vars>>

vars == <<config, auth, request, call, enc, dec, error, shared, op, closer,
          download>>

Init ==
    /\ config = <<>>
    /\ auth = <<>>
    /\ request = <<>>
    /\ call = <<>>
    /\ enc = <<>>
    /\ dec = <<>>
    /\ error = <<>>
    /\ shared = <<>>
    /\ op = <<>>
    /\ closer = [handler |-> 0, tasks |-> <<>>, waits |-> <<>>]
    /\ download = <<>>

\* config = CosConfig(Secret_id, Secret_key, Region, auth_expire=auth_expire)
NewCosConfig ==
    /\ config = <<>>
    /\ auth = <<>>
    /\ \E Secret_id \in SecretIds, Secret_key \in SecretKeys,
          auth_expire \in Expires :
           config' = << [obj |-> CosConfigInit(Secret_id, Secret_key,
                                               auth_expire),
                         auth_expire |-> auth_expire] >>
    /\ UNCHANGED <<auth, request, call>>
    /\ UNCHANGED all_but_sign

\* CosS3Client.__init__: self.auth = config.get_auth()
ClientInit ==
    /\ config # <<>>
    /\ auth = <<>>
    /\ auth' = << [obj |-> CosConfig_get_auth(config[1].obj),
                   origin |-> "CosConfig",
                   expire_arg |-> config[1].auth_expire] >>
    /\ UNCHANGED <<config, request, call>>
    /\ UNCHANGED all_but_sign

\* auth = Auth(secretid, secretkey, expire)
NewAuth ==
    /\ config = <<>>
    /\ auth = <<>>
    /\ \E secretid \in SecretIds, secretkey \in SecretKeys, expire \in Expires :
           auth' = << [obj |-> AuthInit(secretid, secretkey, expire),
                       origin |-> "Auth",
                       expire_arg |-> expire] >>
    /\ UNCHANGED <<config, request, call>>
    /\ UNCHANGED all_but_sign

\* the session builds a COSRequest from the caller's method, url, headers
\* and params, when no other operation is under way
NewRequest ==
    /\ request = <<>>
    /\ call = <<>>
    /\ \E method \in RequestMethods, path \in Paths,
          headers \in HeaderDicts, query \in Queries :
           request' = << [method |-> method, path |-> path, query |-> query,
                          headers |-> headers, state |-> "built"] >>
    /\ UNCHANGED <<config, auth, call>>
    /\ UNCHANGED all_but_sign

\* Auth.__call__ that signs the request without its query parameters
AuthCall_noQuery(self, req, t) ==
    LET c == get_auth(self, lower(req.method), req.path, self.expire,
                      filter_headers(req.headers), <<>>, t)
    IN  [ call |-> c,
          headers |-> Append(req.headers,
                             <<<<"A", "u", "t", "h", "o", "r", "i", "z", "a", "t", "i", "o", "n">>, c.auth>>) ]

\* Auth.__call__(request) at time t: the call of get_auth and the headers
\* of the request after request.headers.add('Authorization', auth)
AuthCall(self, req, t) ==
    LET method  == lower(req.method)
        url     == req.path
        params  == dict_of_mapping(req.query)
        headers == filter_headers(req.headers)
        c       == get_auth(self, method, url, self.expire, headers, params, t)
    IN  [ call |-> c,
          headers |-> Append(req.headers, <<<<"A", "u", "t", "h", "o", "r", "i", "z", "a", "t", "i", "o", "n">>, c.auth>>) ]

\* COSRequest.update_auth(auth), as the request constructor calls it with
\* the auth of the session, time() returning t; the request is then sent
UpdateAuth ==
    /\ request # <<>>
    /\ request[1].state = "built"
    /\ IF auth = <<>>
       THEN /\ request' = << [request[1] EXCEPT !.state = "sent"] >>
            /\ call' = call
       ELSE \E t \in Times :
              LET r == AuthCall(auth[1].obj, request[1], t)
              IN  /\ request' = << [request[1] EXCEPT !.state = "sent",
                                                      !.headers = r.headers] >>
                  /\ call' = << [c |-> r.call, via |-> "__call__"] >>
    /\ UNCHANGED <<config, auth>>
    /\ UNCHANGED all_but_sign

\* COSRequest.update_auth(auth) called once more on a request that
\* Auth.__call__ has signed, time() returning t, not earlier than the first
\* time: the request is signed again
UpdateAuthAgain ==
    /\ request # <<>>
    /\ request[1].state = "sent"
    /\ auth # <<>>
    /\ call # <<>>
    /\ call[1].via = "__call__"
    /\ \E t \in Times :
          /\ t >= call[1].c.t
          /\ LET r == AuthCall(auth[1].obj, request[1], t)
             IN  /\ request' = << [request[1] EXCEPT !.state = "signed again",
                                                     !.headers = r.headers] >>
                 /\ call' = << [c |-> r.call, via |-> "__call__"] >>
    /\ UNCHANGED <<config, auth>>
    /\ UNCHANGED all_but_sign

\* auth.get_auth(method, url, expired, headers, params) called directly, as
\* CosS3Client.get_auth calls it, time() returning t, when no other operation
\* is under way
DirectGetAuth ==
    /\ auth # <<>>
    /\ request = <<>>
    /\ call = <<>>
    /\ \E method \in DirectMethods, url \in Paths, expired \in DirectExpired,
          headers \in HeaderDicts, params \in ParamDicts, t \in Times :
           call' = << [c |-> get_auth(auth[1].obj, method, url, expired,
                                      headers, params, t),
                       via |-> "direct"] >>
    /\ UNCHANGED <<config, auth, request>>
    /\ UNCHANGED all_but_sign

\* the operation under way returns: the sent request and the locals of the
\* call of get_auth are dropped
Return ==
    /\ \/ request # <<>> /\ request[1].state \in {"sent", "signed again"}
       \/ request = <<>> /\ call # <<>>
    /\ request' = <<>>
    /\ call' = <<>>
    /\ UNCHANGED <<config, auth>>
    /\ UNCHANGED all_but_sign

Next ==
    \/ NewCosConfig
    \/ ClientInit
    \/ NewAuth
    \/ NewRequest
    \/ UpdateAuth
    \/ UpdateAuthAgain
    \/ DirectGetAuth
    \/ Return

Spec == Init /\ [][Next]_vars

-----------------------------------------------------------------------------
(* Reading the texts the signer produces *)

\* the text pat occurs in s at index i
OccursAt(s, pat, i) == \A j \in 1..Len(pat) : s[i + j - 1] = pat[j]

\* the index of the first occurrence of the text pat in s at or after index
\* i, 0 if there is none
FindFrom(s, pat, i) ==
    LET last == Len(s) - Len(pat) + 1
    IN  IF \E k \in i..last : OccursAt(s, pat, k)
        THEN CHOOSE k \in i..last :
                 /\ OccursAt(s, pat, k)
                 /\ \A m \in i..(k - 1) : ~OccursAt(s, pat, m)
        ELSE 0

\* the index of the first occurrence of the text pat in s, 0 if there is none
FindSub(s, pat) == FindFrom(s, pat, 1)

\* s.split(sep) for a one-character separator
RECURSIVE Split(_, _)
Split(s, sep) ==
    LET i == FindSub(s, <<sep>>)
    IN  IF i = 0 THEN <<s>>
        ELSE <<SubSeq(s, 1, i - 1)>> \o Split(SubSeq(s, i + 1, Len(s)), sep)

\* the items of a sep-joined list; the empty text is the empty list
Fields(s, sep) == IF s = <<>> THEN <<>> ELSE Split(s, sep)

\* the part of 'name=value' before and after the first '='
NameOf(pair) == SubSeq(pair, 1, FindSub(pair, <<"=">>) - 1)
ValueOf(pair) == SubSeq(pair, FindSub(pair, <<"=">>) + 1, Len(pair))

\* the natural number written by a text of decimal digits
RECURSIVE ParseNat(_)
ParseNat(ds) ==
    IF ds = <<>> THEN 0
    ELSE 10 * ParseNat(SubSeq(ds, 1, Len(ds) - 1)) + (Ord(ds[Len(ds)]) - 48)

\* the value of the field key of an Authorization value a, up to the next '&'
AuthField(a, key) ==
    LET pat == key \o <<"=">>
        i == FindSub(a, pat)
        from == i + Len(pat)
        j == FindFrom(a, <<"&">>, from)
    IN  SubSeq(a, from, (IF j = 0 THEN Len(a) ELSE j - 1))

\* the signature of an Authorization value: the text after 'q-signature='
AuthSignature(a) ==
    LET pat == <<"&", "q", "-", "s", "i", "g", "n", "a", "t", "u", "r", "e", "=">>
    IN  SubSeq(a, FindSub(a, pat) + Len(pat), Len(a))

\* the four lines of an HTTP string
HttpLines(http_str) == Split(SubSeq(http_str, 1, Len(http_str) - 1), "\n")

\* the value of a key of the dict options
Opt(options, key) == options[CHOOSE i \in 1..Len(options) : options[i][1] = key][2]

\* the whole seconds of the sample t of time()
WholeSeconds(t) == t \div TicksPerSecond

\* the start and the end of the time window written in a q-sign-time value
WindowStart(st) == ParseNat(Split(st, ";")[1])
WindowEnd(st) == ParseNat(Split(st, ";")[2])

\* a call of get_auth has returned and its record is at hand
Called == call # <<>>
\* a request has been sent with the Authorization of Auth.__call__
SentSigned == /\ request # <<>>
              /\ request[1].state = "sent"
              /\ call # <<>>
              /\ call[1].via = "__call__"
\* the headers the sent request had when Auth.__call__ was applied to it
HeadersBeforeAuth == SubSeq(request[1].headers, 1, Len(request[1].headers) - 1)

-----------------------------------------------------------------------------
(* Claims *)

\* C1: for every header mapping given to Auth._filter_headers, the signed
\* header set is exactly the lower-cased names of the headers whose name is
\* 'host' in any case or whose lower-cased name starts with 'x'; every other
\* header is excluded.
C1_FilterIgnoresCase ==
    SentSigned =>
        { call[1].c.headers[i][1] : i \in 1..Len(call[1].c.headers) }
          = { lower(HeadersBeforeAuth[i][1]) :
                i \in { j \in 1..Len(HeadersBeforeAuth) :
                          \/ lower(HeadersBeforeAuth[j][1]) = <<"h", "o", "s", "t">>
                          \/ startswith(lower(HeadersBeforeAuth[j][1]), <<"x">>) } }

\* C2: for every call of Auth.get_auth, the end of the signed time window is
\* the sampled time plus the expired argument of that call.
C2_WindowEndIsExpiredArgument ==
    Called =>
        WindowEnd(AuthField(call[1].c.auth, <<"q", "-", "s", "i", "g", "n", "-", "t", "i", "m", "e">>))
          = WholeSeconds(call[1].c.t) + call[1].c.expired

\* C3: for an Auth built with expire=E, every Authorization value produced at
\* the sampled time now has q-sign-time = q-key-time = "<now-60>;<now+E>",
\* two integers taken from the one sample.
C3_SignTimeWindow ==
    Called =>
        LET st == AuthField(call[1].c.auth, <<"q", "-", "s", "i", "g", "n", "-", "t", "i", "m", "e">>)
            kt == AuthField(call[1].c.auth, <<"q", "-", "k", "e", "y", "-", "t", "i", "m", "e">>)
            now == WholeSeconds(call[1].c.t)
        IN  /\ st = kt
            /\ Len(Split(st, ";")) = 2
            /\ \A i \in 1..Len(st) : st[i] \in Digits \cup {";"}
            /\ WindowStart(st) = now - 60
            /\ WindowEnd(st) = now + auth[1].obj.expire

\* C3 witness: a sample of 1000 s and a fraction, signed by an Auth with
\* expire=100, gives "940;1100".
C3_Witness ==
    /\ Called
    /\ call[1].c.t % TicksPerSecond # 0
    /\ auth[1].origin = "Auth"
    /\ auth[1].obj.expire = 100
    /\ AuthField(call[1].c.auth, <<"q", "-", "k", "e", "y", "-", "t", "i", "m", "e">>) = <<"9", "4", "0", ";", "1", "1", "0", "0">>

\* C4: the expiry passed as CosConfig(auth_expire=E) is the one used for
\* signing: the Auth of CosConfig.get_auth() signs with window end = now + E.
C4_ConfiguredExpireIsUsed ==
    (Called /\ auth[1].origin = "CosConfig") =>
        WindowEnd(AuthField(call[1].c.auth, <<"q", "-", "s", "i", "g", "n", "-", "t", "i", "m", "e">>))
          = WholeSeconds(call[1].c.t) + auth[1].expire_arg

\* C5: the first line of the HTTP string built by Auth.get_auth is the
\* lower-cased method, for every case of the method argument, through
\* Auth.__call__ and in a direct call alike.
C5_MethodLineIsLowerCase ==
    Called => HttpLines(call[1].c.http_str)[1] = lower(call[1].c.method)

\* C6: q-signature is the hex HMAC-SHA1, keyed with signing_key, of
\* "sha1\n<sign_time>\n<hex SHA1 of the HTTP string>\n", where signing_key is
\* the hex HMAC-SHA1 of sign_time keyed with the secret key; the secret key
\* keys the first HMAC only and is not written in the Authorization value.
C6_SignatureChain ==
    Called =>
        LET a == call[1].c.auth
            sign_time == AuthField(a, <<"q", "-", "s", "i", "g", "n", "-", "t", "i", "m", "e">>)
            signing_key == hmac_new(auth[1].obj.secretkey, sign_time)
            string_to_sign == <<"s", "h", "a", "1">> \o <<"\n">> \o sign_time \o <<"\n">>
                                \o sha1(call[1].c.http_str) \o <<"\n">>
            written == SubSeq(a, 1, FindSub(a, <<"&", "q", "-", "s", "i", "g", "n", "a", "t", "u", "r", "e", "=">>))
        IN  /\ AuthSignature(a) = hmac_new(signing_key, string_to_sign)
            /\ signing_key # auth[1].obj.secretkey
            /\ FindSub(written, auth[1].obj.secretkey) = 0

\* C6 witness: a call that signed at least one header and one parameter.
C6_Witness ==
    /\ Called
    /\ call[1].c.headers # <<>>
    /\ call[1].c.params # <<>>
    /\ Len(AuthSignature(call[1].c.auth)) > 0

\* C7: the Authorization value is the seven fields q-sign-algorithm, q-ak,
\* q-sign-time, q-key-time, q-header-list, q-url-param-list, q-signature in
\* that order, each key=value, joined by '&', the values written raw.
C7_AuthorizationFormat ==
    Called =>
        LET o == call[1].c.options
        IN  call[1].c.auth =
                <<"q", "-", "s", "i", "g", "n", "-", "a", "l", "g", "o", "r", "i", "t", "h", "m", "=", "s", "h", "a", "1">>
                \o <<"&", "q", "-", "a", "k", "=">> \o auth[1].obj.secretid
                \o <<"&", "q", "-", "s", "i", "g", "n", "-", "t", "i", "m", "e", "=">> \o Opt(o, <<"q", "-", "s", "i", "g", "n", "-", "t", "i", "m", "e">>)
                \o <<"&", "q", "-", "k", "e", "y", "-", "t", "i", "m", "e", "=">> \o Opt(o, <<"q", "-", "k", "e", "y", "-", "t", "i", "m", "e">>)
                \o <<"&", "q", "-", "h", "e", "a", "d", "e", "r", "-", "l", "i", "s", "t", "=">> \o Opt(o, <<"q", "-", "h", "e", "a", "d", "e", "r", "-", "l", "i", "s", "t">>)
                \o <<"&", "q", "-", "u", "r", "l", "-", "p", "a", "r", "a", "m", "-", "l", "i", "s", "t", "=">> \o Opt(o, <<"q", "-", "u", "r", "l", "-", "p", "a", "r", "a", "m", "-", "l", "i", "s", "t">>)
                \o <<"&", "q", "-", "s", "i", "g", "n", "a", "t", "u", "r", "e", "=">> \o Opt(o, <<"q", "-", "s", "i", "g", "n", "a", "t", "u", "r", "e">>)

\* C7 witness: a call whose header list and parameter list both hold a ';'.
C7_Witness ==
    /\ Called
    /\ FindSub(Opt(call[1].c.options, <<"q", "-", "h", "e", "a", "d", "e", "r", "-", "l", "i", "s", "t">>), <<";">>) > 0
    /\ FindSub(Opt(call[1].c.options, <<"q", "-", "u", "r", "l", "-", "p", "a", "r", "a", "m", "-", "l", "i", "s", "t">>), <<";">>) > 0
    /\ FindSub(call[1].c.auth, <<"%", "3", "B">>) = 0

\* the names n[1] < n[2] < ... are in strictly ascending order
Ascending(n) == \A i \in 1..(Len(n) - 1) : StrLess(n[i], n[i + 1])

\* the names of a list are the keys of a dict, in ascending order, and the
\* pairs of a line of the HTTP string carry these names in the same order
SortedLike(list, d, line) ==
    LET names == Fields(list, ";")
        pairs == Fields(line, "&")
    IN  /\ Ascending(names)
        /\ Len(names) = Len(d)
        /\ { names[i] : i \in 1..Len(names) } = { d[i][1] : i \in 1..Len(d) }
        /\ Len(pairs) = Len(names)
        /\ \A i \in 1..Len(names) :
              \E j \in 1..Len(d) :
                 /\ d[j][1] = names[i]
                 /\ NameOf(pairs[i]) = Auth_quote(d[j][1])
                 /\ ValueOf(pairs[i]) = Auth_quote(d[j][2])

\* C8: for every insertion order of the header and parameter mappings,
\* q-header-list and q-url-param-list are the names sorted lexicographically
\* and joined by ';', and the pairs of the params line and of the headers
\* line of the HTTP string are in that same order.
C8_SortedLists ==
    Called =>
        LET a == call[1].c.auth
            lines == HttpLines(call[1].c.http_str)
        IN  /\ SortedLike(AuthField(a, <<"q", "-", "h", "e", "a", "d", "e", "r", "-", "l", "i", "s", "t">>),
                          call[1].c.headers, lines[4])
            /\ SortedLike(AuthField(a, <<"q", "-", "u", "r", "l", "-", "p", "a", "r", "a", "m", "-", "l", "i", "s", "t">>),
                          call[1].c.params, lines[3])

\* C8 witness: the headers and the parameters were both inserted in
\* descending order of their names.
C8_Witness ==
    /\ Called
    /\ Len(call[1].c.headers) = 2
    /\ StrLess(call[1].c.headers[2][1], call[1].c.headers[1][1])
    /\ Len(call[1].c.params) = 2
    /\ StrLess(call[1].c.params[2][1], call[1].c.params[1][1])
    /\ AuthField(call[1].c.auth, <<"q", "-", "u", "r", "l", "-", "p", "a", "r", "a", "m", "-", "l", "i", "s", "t">>) = <<"a", ";", "b">>

\* the encoding C9 states for one character: space is '%20', plus is '%2B',
\* letters, digits and '-', '_', '.', '~' stay as they are
Stated == AlwaysSafe \cup {" ", "+"}

RECURSIVE StatedEncoding(_)
StatedEncoding(v) ==
    IF v = <<>> THEN <<>>
    ELSE (CASE Head(v) = " " -> <<"%", "2", "0">>
            [] Head(v) = "+" -> <<"%", "2", "B">>
            [] OTHER -> <<Head(v)>>) \o StatedEncoding(Tail(v))

\* the values of a dict are written in a line of the HTTP string as C9 states
EncodedLike(d, line) ==
    /\ \A i \in 1..Len(line) : line[i] \notin {" ", "+"}
    /\ \A j \in 1..Len(d) :
          (\A i \in 1..Len(d[j][2]) : d[j][2][i] \in Stated) =>
              \E p \in 1..Len(Fields(line, "&")) :
                  /\ NameOf(Fields(line, "&")[p]) = d[j][1]
                  /\ ValueOf(Fields(line, "&")[p]) = StatedEncoding(d[j][2])

\* C9: in the HTTP string every parameter value and header value is
\* percent-encoded so that a space is '%20' (never '+'), a '+' is '%2B' and
\* '-', '_', '.', '~' are left as they are, in the params line and in the
\* headers line alike.
C9_PercentEncoding ==
    Called =>
        LET lines == HttpLines(call[1].c.http_str)
        IN  /\ EncodedLike(call[1].c.params, lines[3])
            /\ EncodedLike(call[1].c.headers, lines[4])

\* C9 witness: a parameter value with a space and a '+', a header value with
\* a space and a header value with a '+' have been signed.
C9_Witness ==
    /\ Called
    /\ \E j \in 1..Len(call[1].c.params) : call[1].c.params[j][2] = <<"2", " ", "+">>
    /\ \E j \in 1..Len(call[1].c.headers) : call[1].c.headers[j][2] = <<"a", " ", "b">>
    /\ \E j \in 1..Len(call[1].c.headers) : call[1].c.headers[j][2] = <<"p", "+", "r">>
    /\ FindSub(HttpLines(call[1].c.http_str)[3], <<"b", "=", "2", "%", "2", "0", "%", "2", "B">>) > 0

-----------------------------------------------------------------------------
(* utils.py: the values of the XML codec *)

\* The Python values the codec handles, one record shape for all of them:
\* a text (str, or bytes of the same ASCII characters), a number, a dict
\* (items: its <<key, value>> pairs in insertion order) and a list (items:
\* one <<<<>>, value>> pair per element).
Str(t) == [kind |-> "str", text |-> t, items |-> <<>>]
Num(n) == [kind |-> "int", text |-> DecNat(n), items |-> <<>>]
Dict(items) == [kind |-> "dict", text |-> <<>>, items |-> items]
List(values) ==
    [kind |-> "list", text |-> <<>>,
     items |-> IF values = <<>> THEN <<>>
               ELSE [i \in 1..Len(values) |-> << <<>>, values[i] >>]]

\* list.append(x)
list_append(l, x) == [l EXCEPT !.items = Append(l.items, << <<>>, x >>)]

\* k in d, and d[k], for a dict
has_key(d, k) == \E i \in 1..Len(d.items) : d.items[i][1] = k
getitem(d, k) == d.items[CHOOSE i \in 1..Len(d.items) : d.items[i][1] = k][2]

\* ensure_str(s): bytes are decoded, the ASCII text has the same characters
ensure_str(s) == s
\* ensure_bytes(s): str is encoded, one byte per ASCII character
ensure_bytes(s) == s

\* the characters str.strip() removes
Whitespace == {" ", "\n"}

\* a strip() that removes nothing
strip_identity(s) == s

\* str.strip(): the text between its first and last character that is not
\* whitespace
strip(s) ==
    LET solid == {i \in 1..Len(s) : s[i] \notin Whitespace}
    IN  IF solid = {} THEN <<>>
        ELSE SubSeq(s, CHOOSE i \in solid : \A j \in solid : i <= j,
                       CHOOSE i \in solid : \A j \in solid : j <= i)

-----------------------------------------------------------------------------
(* utils.py: XML_RE = re.compile(r'<(\w+)>([\s\S]+?)</\1>', re.M) *)

\* the characters \w matches in ASCII text
Word == UpperLetters \cup LowerLetters \cup Digits \cup {"_"}

\* '<(\w+)>' matches at index i of s: the index of the '>' that ends the
\* opening tag, 0 if there is no opening tag at i
OpenEnd(s, i) ==
    IF /\ i <= Len(s)
       /\ s[i] = "<"
       /\ \E j \in (i + 2)..Len(s) :
              /\ s[j] = ">"
              /\ \A k \in (i + 1)..(j - 1) : s[k] \in Word
    THEN CHOOSE j \in (i + 2)..Len(s) :
              /\ s[j] = ">"
              /\ \A k \in (i + 1)..(j - 1) : s[k] \in Word
    ELSE 0

\* '</\1>' for the tag captured by group 1
CloseTag(tag) == <<"<", "/">> \o tag \o <<">">>

\* where the lazy '[\s\S]+?' stops: the index of the last closing tag of the
\* name in s, as a greedy '[\s\S]+' would find it
CloseAt_greedy(s, tag, from) ==
    LET c == CloseTag(tag)
        last == Len(s) - Len(c) + 1
    IN  IF \E k \in from..last : OccursAt(s, c, k)
        THEN CHOOSE k \in from..last :
                 /\ OccursAt(s, c, k)
                 /\ \A m \in (k + 1)..last : ~OccursAt(s, c, m)
        ELSE 0

\* where the lazy '[\s\S]+?' stops: the index of the first closing tag of
\* the name at or after index from, 0 if there is none
CloseAt(s, tag, from) == FindFrom(s, CloseTag(tag), from)

\* the match of XML_RE that starts at index i of s, whose opening tag ends
\* at index j and holds tag, and whose closing tag is found at index c, as
\* <<m>>, or <<>> if c is 0
MatchUpTo(s, i, j, tag, c) ==
    IF c = 0 THEN <<>>
    ELSE << [start |-> i, tag |-> tag,
             content |-> SubSeq(s, j + 1, c - 1),
             stop |-> c + Len(tag) + 2] >>

\* the same, the closing tag of tag being looked for from index j + 2 on:
\* the content is at least one character long
MatchOfTag(s, i, j, tag) == MatchUpTo(s, i, j, tag, CloseAt(s, tag, j + 2))

\* the same, j being 0 if no opening tag starts at index i
MatchAfter(s, i, j) ==
    IF j = 0 THEN <<>> ELSE MatchOfTag(s, i, j, SubSeq(s, i + 1, j - 1))

\* the match of XML_RE that starts at index i of s, as <<m>>, or <<>> if
\* there is none
MatchAt(s, i) == MatchAfter(s, i, OpenEnd(s, i))

\* the matches of XML_RE in s from index pos on, given for every index
\* from pos on the match that starts there: the leftmost one, then the
\* matches after its end
RECURSIVE XML_RE_scan(_, _, _)
RECURSIVE XML_RE_scan_from(_, _, _)
XML_RE_scan(s, pos, at) ==
    IF \E i \in pos..Len(s) : at[i] # <<>>
    THEN XML_RE_scan_from(s, at,
                          at[CHOOSE i \in pos..Len(s) :
                                /\ at[i] # <<>>
                                /\ \A k \in pos..(i - 1) : at[k] = <<>>][1])
    ELSE <<>>

\* the match m, then the matches after its end
XML_RE_scan_from(s, at, m) == <<m>> \o XML_RE_scan(s, m.stop + 1, at)

\* XML_RE.finditer(s) from index pos on: the matches found scanning from
\* left to right, each search resuming after the end of the previous match
XML_RE_finditer(s, pos) ==
    XML_RE_scan(s, pos, [i \in 1..Len(s) |-> MatchAt(s, i)])

\* the (tag, content) groups of the matches ms
groups(ms) ==
    IF ms = <<>> THEN <<>>
    ELSE [n \in 1..Len(ms) |-> <<ms[n].tag, ms[n].content>>]

\* XML_RE.findall(s): the (tag, content) groups of the matches
XML_RE_findall(s) == groups(XML_RE_finditer(s, 1))

-----------------------------------------------------------------------------
(* utils.py: xml2dict *)

\* a lst_dict[k] that keeps no more than the value appended last
lst_dict_append_last(lst_dict, k, x) == dict_set(lst_dict, k, List(<<x>>))

\* lst_dict[k].append(x) on a defaultdict(list)
lst_dict_append(lst_dict, k, x) ==
    IF \E i \in 1..Len(lst_dict) : lst_dict[i][1] = k
    THEN [i \in 1..Len(lst_dict) |->
            IF lst_dict[i][1] = k
            THEN <<k, list_append(lst_dict[i][2], x)>>
            ELSE lst_dict[i]]
    ELSE Append(lst_dict, <<k, List(<<x>>)>>)

\* ret.update(other) on two dicts
RECURSIVE dict_update(_, _)
dict_update(ret, other) ==
    IF other = <<>> THEN ret
    ELSE dict_update(dict_set(ret, other[1][1], other[1][2]), Tail(other))

\* the loop of xml2dict after the first n - 1 pairs of root, which left
\* before, and the pair k, v
xml2dict_step(before, k, v, lst) ==
    IF k \in lst
    THEN [before EXCEPT !.lst_dict = lst_dict_append(@, k, v)]
    ELSE [before EXCEPT !.ret = dict_set(@, k, v)]

\* xml2dict(xml, lst): ret and lst_dict after the first n pairs of root
RECURSIVE xml2dict(_, _)
RECURSIVE xml2dict_loop(_, _, _)
xml2dict_loop(root, lst, n) ==
    IF n = 0 THEN [ret |-> <<>>, lst_dict |-> <<>>]
    ELSE xml2dict_step(xml2dict_loop(root, lst, n - 1),
                       root[n][1], xml2dict(root[n][2], lst), lst)

\* ret.update(lst_dict); return ret
xml2dict_return(end) == Dict(dict_update(end.ret, end.lst_dict))

\* xml2dict for the stripped text of xml and the pairs root found in it
xml2dict_root(text, root, lst) ==
    IF root = <<>> THEN Str(text)
    ELSE xml2dict_return(xml2dict_loop(root, lst, Len(root)))

xml2dict_text(text, lst) == xml2dict_root(text, XML_RE_findall(text), lst)

\* xml2dict(xml, lst)
xml2dict(xml, lst) == xml2dict_text(strip(ensure_str(xml)), lst)

-----------------------------------------------------------------------------
(* utils.py: dict2xml, and the override rules client.py passes to it *)

\* the outcome of a call: the exception it raised ("" for none) and the
\* bytes it returned
Returned(xml) == [raised |-> "", xml |-> xml]
Raised(exception) == [raised |-> exception, xml |-> <<>>]

\* rules[el], for a dict of rules given as <<key, rule>> pairs
in_rules(el, rules) == \E i \in 1..Len(rules) : rules[i][1] = el
rule_of(el, rules) == rules[CHOOSE i \in 1..Len(rules) : rules[i][1] = el][2]

\* rules[el](value): grant_to_xml and owner_to_xml of put_object_acl call
\* '...{OwnerUin}...'.format(value), where the named fields are looked up in
\* the keyword arguments, of which there are none: KeyError.  "raw" is a rule
\* that returns the bytes <Raw/> for every value.
rule_call(rule, value) ==
    IF rule \in {"grant_to_xml", "owner_to_xml"} THEN Raised("KeyError")
    ELSE Returned(<<"<", "R", "a", "w", "/", ">">>)

\* b'<%s>%s</%s>' % (el, text, el)
Element(el, text) == <<"<">> \o el \o <<">">> \o text \o CloseTag(el)

RECURSIVE dict2xml(_, _, _)
RECURSIVE dict2xml_list(_, _, _)
RECURSIVE dict2xml_loop(_, _, _)

\* xml after the bytes of part are appended to it, or the first exception
dict2xml_append(before, part) ==
    IF before.raised # "" THEN before
    ELSE IF part.raised # "" THEN part
    ELSE Returned(before.xml \o part.xml)

\* [dict2xml(x, el) for x in d[el]] over the first n elements: the bytes of
\* the elements joined, or the first exception
dict2xml_list(elements, el, n) ==
    IF n = 0 THEN Returned(<<>>)
    ELSE dict2xml_append(dict2xml_list(elements, el, n - 1),
                         dict2xml(elements[n][2], el, <<>>))

\* the body of the loop "for el in d" of dict2xml for the key el and
\* v = d[el]: the bytes it appends to xml, or its exception
dict2xml_element(el, v, rules) ==
    IF in_rules(el, rules) THEN rule_call(rule_of(el, rules), v)
    ELSE IF v.kind = "dict" THEN dict2xml(v, el, <<>>)
    ELSE IF v.kind = "list" THEN dict2xml_list(v.items, el, Len(v.items))
    ELSE IF v.kind = "str"
         THEN Returned(Element(ensure_bytes(el), ensure_bytes(v.text)))
    ELSE Returned(<<>>)

\* the loop "for el in d" of dict2xml over the first n keys of the dict d:
\* the bytes appended to xml, or the first exception
dict2xml_loop(d, rules, n) ==
    IF n = 0 THEN Returned(<<>>)
    ELSE dict2xml_append(dict2xml_loop(d, rules, n - 1),
                         dict2xml_element(d.items[n][1], d.items[n][2], rules))

\* xml.append(b'</%s>' % root); return b''.join(xml), for the bytes body
\* the loop appended, or the exception of the loop
dict2xml_return(root, body) ==
    IF body.raised # "" THEN body
    ELSE Returned(Element(ensure_bytes(root), body.xml))

\* dict2xml(d, root, rules).  A d that is not a dict comes from a list: an
\* empty text or list has nothing to iterate, "for el in d" over a text or a
\* list of texts, dicts or lists fails at d[el] or at "el in rules", and a
\* number cannot be iterated: TypeError.
dict2xml(d, root, rules) ==
    dict2xml_return(root,
        IF d.kind = "dict" THEN dict2xml_loop(d, rules, Len(d.items))
        ELSE IF d.kind = "str" /\ d.text = <<>> THEN Returned(<<>>)
        ELSE IF d.kind = "list" /\ d.items = <<>> THEN Returned(<<>>)
        ELSE Raised("TypeError"))

-----------------------------------------------------------------------------
(* Inputs of the codec *)

\* largest number of elements at the top level of a decoded document
MaxElements == 2

\* an XML element of a response body: a leaf with a text, or a parent of
\* child elements
Leaf(tag, text) == [tag |-> tag, text |-> text, children |-> <<>>]
Parent(tag, children) == [tag |-> tag, text |-> <<>>, children |-> children]

RECURSIVE Render(_)
RECURSIVE RenderAll(_)
\* the text of an element
Render(e) ==
    Element(e.tag, IF e.children = <<>> THEN e.text ELSE RenderAll(e.children))
\* the text of a sequence of elements
RenderAll(es) == IF es = <<>> THEN <<>> ELSE Render(es[1]) \o RenderAll(Tail(es))

ElementPool ==
    { Leaf(<<"A">>, <<"1">>), Leaf(<<"A">>, <<"2">>), Leaf(<<"B">>, <<" ", "1", " ">>), Leaf(<<"A">>, <<>>),
      Parent(<<"A">>, <<Leaf(<<"A">>, <<"1">>)>>),
      Parent(<<"A">>, <<Leaf(<<"A">>, <<"1">>), Leaf(<<"A">>, <<"2">>)>>),
      Parent(<<"B">>, <<Leaf(<<"A">>, <<"1">>), Leaf(<<"A">>, <<"2">>)>>) }

Documents == UNION { [1..n -> ElementPool] : n \in 1..MaxElements }

\* response texts that are not documents
TextPool == { <<>>, <<" ">>, <<"a">>, <<" ", "a", " ">>, <<"\n", "a", " ", "b", "\n">>, <<"<", "A", ">", "1", "<", "/", "B", ">">>, <<"<", "A", ">">>, <<"a", "<", "b">> }

\* the lst arguments: lists of tag names
TagLists == SUBSET { <<"A">>, <<"B">>, <<"R", "u", "l", "e">> }

\* the d arguments of dict2xml
NodePool ==
    { Dict(<< <<<<"R", "u", "l", "e">>, List(<< Dict(<< <<<<"I", "D">>, Str(<<"1">>)>> >>),
                                 Dict(<< <<<<"I", "D">>, Str(<<"2">>)>> >>) >>)>> >>),
      Dict(<< <<<<"I", "D">>, Str(<<"1">>)>> >>),
      Dict(<< <<<<"A">>, Str(<<" ", "1">>)>> >>),
      Dict(<< <<<<"A">>, Dict(<< <<<<"B">>, Str(<<"1">>)>> >>)>> >>),
      Dict(<< <<<<"B">>, Dict(<< <<<<"A">>, Str(<<"1">>)>> >>)>> >>),
      Dict(<< <<<<"B">>, List(<< Dict(<< <<<<"A">>, Str(<<"1">>)>> >>) >>)>> >>),
      Dict(<< <<<<"A">>, Str(<<"1">>)>>, <<<<"B">>, Str(<<"2">>)>> >>),
      Dict(<< <<<<"M", "a", "x", "A", "g", "e", "S", "e", "c", "o", "n", "d", "s">>, Num(500)>>, <<<<"I", "D">>, Str(<<"1">>)>> >>),
      Dict(<< <<<<"A", "l", "l", "o", "w", "e", "d", "O", "r", "i", "g", "i", "n">>, List(<< Str(<<"h", "t", "t", "p", ":", "/", "/", "w", "w", "w", ".", "q", "q", ".", "c", "o", "m">>) >>)>> >>),
      Dict(<< <<<<"C", "O", "R", "S", "R", "u", "l", "e">>,
               List(<< Dict(<< <<<<"I", "D">>, Str(<<"1">>)>>,
                               <<<<"M", "a", "x", "A", "g", "e", "S", "e", "c", "o", "n", "d", "s">>, Num(500)>>,
                               <<<<"A", "l", "l", "o", "w", "e", "d", "O", "r", "i", "g", "i", "n">>,
                                 List(<< Str(<<"h", "t", "t", "p", ":", "/", "/", "w", "w", "w", ".", "q", "q", ".", "c", "o", "m">>) >>)>> >>) >>)>> >>),
      Dict(<< <<<<"A">>, List(<<>>)>> >>),
      Dict(<< <<<<"A">>, Dict(<<>>)>> >>),
      Dict(<< <<<<"O", "w", "n", "e", "r">>, Dict(<< <<<<"I", "D">>, Str(<<"1">>)>> >>)>>,
              <<<<"A", "c", "c", "e", "s", "s", "C", "o", "n", "t", "r", "o", "l", "L", "i", "s", "t">>,
                Dict(<< <<<<"G", "r", "a", "n", "t">>,
                          List(<< Dict(<< <<<<"P", "e", "r", "m", "i", "s", "s", "i", "o", "n">>, Str(<<"R", "E", "A", "D">>)>> >>) >>)>> >>)>> >>) }

\* the root arguments of dict2xml
Roots == { <<"L", "i", "f", "e", "c", "y", "c", "l", "e", "C", "o", "n", "f", "i", "g", "u", "r", "a", "t", "i", "o", "n">>, <<"A", "c", "c", "e", "s", "s", "C", "o", "n", "t", "r", "o", "l", "P", "o", "l", "i", "c", "y">> }

\* the rules arguments of dict2xml: none, the rules of put_object_acl, and
\* a rule for the key A
RuleDicts ==
    { <<>>,
      << <<<<"G", "r", "a", "n", "t">>, "grant_to_xml">>, <<<<"O", "w", "n", "e", "r">>, "owner_to_xml">> >>,
      << <<<<"A">>, "raw">> >> }

-----------------------------------------------------------------------------
(* The codec at work *)

\* body = dict2xml(d, root, rules), as the put_* methods of the client build
\* a request body, when no other call of the codec is under way
Dict2xmlCall ==
    /\ enc = <<>>
    /\ dec = <<>>
    /\ \E d \in NodePool, root \in Roots, rules \in RuleDicts :
           enc' = << [d |-> d, root |-> root, rules |-> rules,
                      result |-> dict2xml(d, root, rules)] >>
    /\ UNCHANGED dec
    /\ UNCHANGED all_but_codec

\* the record of a call xml2dict(xml, lst)
Xml2dict(xml, lst, via, doc) ==
    [xml |-> xml, lst |-> lst, via |-> via, doc |-> doc,
     result |-> xml2dict(xml, lst)]

\* xml2dict(body, lst) on the body dict2xml has just returned
Xml2dictOfBody ==
    /\ enc # <<>>
    /\ enc[1].result.raised = ""
    /\ dec = <<>>
    /\ \E lst \in TagLists :
           dec' = << Xml2dict(enc[1].result.xml, lst, "dict2xml", <<>>) >>
    /\ UNCHANGED enc
    /\ UNCHANGED all_but_codec

\* xml2dict(xml, lst) on a response body that is a document, as the parsers
\* of the get_* methods of the client call it
Xml2dictOfDocument ==
    /\ enc = <<>>
    /\ dec = <<>>
    /\ \E doc \in Documents, lst \in TagLists :
           dec' = << Xml2dict(RenderAll(doc), lst, "document", doc) >>
    /\ UNCHANGED enc
    /\ UNCHANGED all_but_codec

\* xml2dict(xml, lst) on a response body that is no document
Xml2dictOfText ==
    /\ enc = <<>>
    /\ dec = <<>>
    /\ \E xml \in TextPool, lst \in TagLists :
           dec' = << Xml2dict(xml, lst, "text", <<>>) >>
    /\ UNCHANGED enc
    /\ UNCHANGED all_but_codec

\* the results of the codec are dropped
CodecReturn ==
    /\ enc # <<>> \/ dec # <<>>
    /\ enc' = <<>>
    /\ dec' = <<>>
    /\ UNCHANGED all_but_codec

NextXml ==
    \/ Dict2xmlCall
    \/ Xml2dictOfBody
    \/ Xml2dictOfDocument
    \/ Xml2dictOfText
    \/ CodecReturn

SpecXml == Init /\ [][NextXml]_vars

-----------------------------------------------------------------------------
(* Claims about the XML codec *)

\* a == b for two Python values: dicts compare without regard to the order
\* of their keys, lists element by element
RECURSIVE SameValue(_, _)
SameValue(a, b) ==
    /\ a.kind = b.kind
    /\ a.text = b.text
    /\ Len(a.items) = Len(b.items)
    /\ \A i \in 1..Len(a.items) :
           IF a.kind = "dict"
           THEN \E j \in 1..Len(b.items) :
                    /\ b.items[j][1] = a.items[i][1]
                    /\ SameValue(a.items[i][2], b.items[j][2])
           ELSE SameValue(a.items[i][2], b.items[i][2])

\* the node is built from mappings, lists of mappings and text leaves
RECURSIVE Encodable(_)
Encodable(v) ==
    \/ v.kind = "str"
    \/ /\ v.kind = "dict"
       /\ \A i \in 1..Len(v.items) :
              LET x == v.items[i][2]
              IN  \/ x.kind \in {"str", "dict"} /\ Encodable(x)
                  \/ /\ x.kind = "list"
                     /\ \A n \in 1..Len(x.items) :
                            /\ x.items[n][2].kind = "dict"
                            /\ Encodable(x.items[n][2])

\* the tag names that hold a list somewhere in the node
RECURSIVE ListTags(_)
ListTags(v) ==
    UNION { (IF v.kind = "dict" /\ v.items[i][2].kind = "list"
             THEN {v.items[i][1]} ELSE {})
            \cup ListTags(v.items[i][2]) : i \in 1..Len(v.items) }

\* a body encoded without rules from an encodable node has been decoded
\* with a list of tags that holds every tag that holds a list in the node
RoundTripMade ==
    /\ enc # <<>>
    /\ dec # <<>>
    /\ dec[1].via = "dict2xml"
    /\ enc[1].rules = <<>>
    /\ Encodable(enc[1].d)
    /\ ListTags(enc[1].d) \subseteq dec[1].lst

\* C12: decoding with R what dict2xml encoded from a node built from
\* mappings, lists of mappings and text leaves gives back the node, when
\* every tag that holds a list in the node is in R.
C12_RoundTrip ==
    RoundTripMade => SameValue(dec[1].result, enc[1].d)

\* the text has no match of XML_RE: no opening tag that is followed, after
\* at least one character, by a closing tag of the same name
NoPair(s) == \A i \in 1..Len(s) : MatchAt(s, i) = <<>>

\* xml2dict has been called on a text without a matching pair
NoPairDecoded == dec # <<>> /\ NoPair(dec[1].xml)

\* t is s without its leading and trailing whitespace
StrippedOf(s, t) ==
    /\ t = <<>> \/ (t[1] \notin Whitespace /\ t[Len(t)] \notin Whitespace)
    /\ \E a \in 1..(Len(s) + 1) :
           /\ a + Len(t) - 1 <= Len(s)
           /\ SubSeq(s, a, a + Len(t) - 1) = t
           /\ \A i \in 1..Len(s) :
                  (i < a \/ i > a + Len(t) - 1) => s[i] \in Whitespace

\* C13, as stated: xml2dict applied to a text without a matching pair
\* returns the text unchanged, leading and trailing whitespace included.
C13_NoPairReturnsTextUnchanged ==
    NoPairDecoded => dec[1].result = Str(dec[1].xml)

\* C13, amended: xml2dict applied to a text without a matching pair returns
\* the text without its leading and trailing whitespace, as a text.
C13_NoPairReturnsStrippedText ==
    NoPairDecoded =>
        /\ dec[1].result.kind = "str"
        /\ StrippedOf(dec[1].xml, dec[1].result.text)

\* a text without a pair that begins and ends with whitespace was decoded
C13_Witness ==
    /\ NoPairDecoded
    /\ dec[1].xml # <<>>
    /\ dec[1].xml[1] \in Whitespace
    /\ dec[1].xml[Len(dec[1].xml)] \in Whitespace
    /\ dec[1].result.text # <<>>
    /\ dec[1].result.text # dec[1].xml

\* the tag names of a sequence of elements and of all their descendants
RECURSIVE TagsIn(_)
TagsIn(es) ==
    UNION { {es[i].tag} \cup TagsIn(es[i].children) : i \in 1..Len(es) }

\* no element of the document is empty and none is nested in an element of
\* the same name
RECURSIVE Plain(_)
Plain(es) ==
    \A i \in 1..Len(es) :
        /\ es[i].text # <<>> \/ es[i].children # <<>>
        /\ es[i].tag \notin TagsIn(es[i].children)
        /\ Plain(es[i].children)

\* the elements of es that have the tag t, in document order
Occurrences(es, t) == SelectSeq(es, LAMBDA e : e.tag = t)

\* v is what the elements es of one nesting level decode to: a mapping with
\* one key per tag name; under a tag of lst the list of its occurrences,
\* decoded, in document order; under any other tag its last occurrence,
\* decoded; a leaf decodes to its text without surrounding whitespace
RECURSIVE Decodes(_, _, _)
Decodes(es, v, lst) ==
    /\ v.kind = "dict"
    /\ {v.items[i][1] : i \in 1..Len(v.items)} = {es[i].tag : i \in 1..Len(es)}
    /\ \A t \in {es[i].tag : i \in 1..Len(es)} :
           LET occ == Occurrences(es, t)
               x == getitem(v, t)
               One(e, y) == IF e.children = <<>>
                            THEN y.kind = "str" /\ StrippedOf(e.text, y.text)
                            ELSE Decodes(e.children, y, lst)
           IN  IF t \in lst
               THEN /\ x.kind = "list"
                    /\ Len(x.items) = Len(occ)
                    /\ \A n \in 1..Len(occ) : One(occ[n], x.items[n][2])
               ELSE /\ x.kind # "list"
                    /\ One(occ[Len(occ)], x)

\* the matches of XML_RE the decoder finds at the top level of its text
TopMatches == XML_RE_finditer(strip(dec[1].xml), 1)

\* those of the tag t
TopMatchesOf(t) == SelectSeq(TopMatches, LAMBDA m : m.tag = t)

\* xml2dict has decoded a text in which it found pairs
PairsDecoded == dec # <<>> /\ TopMatches # <<>>

\* xml2dict has decoded a document none of whose elements is empty or nested
\* in an element of the same name
PlainDecoded == dec # <<>> /\ dec[1].via = "document" /\ Plain(dec[1].doc)

\* C14: a tag of the repeatable set that occurs n >= 1 times at one nesting
\* level is mapped to the list of its n decoded values in document order,
\* a list of length 1 for one occurrence, and a tag that is not in the set
\* is never mapped to a list.  The occurrences are the pairs the decoder
\* matches at that level (C16), which in a document without empty elements
\* and without an element nested in one of its own name are the elements
\* of that level.
C14_RepeatableTagsAreLists ==
    /\ PairsDecoded =>
           /\ dec[1].result.kind = "dict"
           /\ \A i \in 1..Len(dec[1].result.items) :
                  LET t == dec[1].result.items[i][1]
                      x == dec[1].result.items[i][2]
                      occ == TopMatchesOf(t)
                  IN  IF t \in dec[1].lst
                      THEN /\ x.kind = "list"
                           /\ Len(occ) >= 1
                           /\ Len(x.items) = Len(occ)
                           /\ \A n \in 1..Len(occ) :
                                  x.items[n][2] = xml2dict(occ[n].content,
                                                           dec[1].lst)
                      ELSE x.kind # "list"
           /\ \A n \in 1..Len(TopMatches) :
                  has_key(dec[1].result, TopMatches[n].tag)
    /\ PlainDecoded =>
           /\ Len(TopMatches) = Len(dec[1].doc)
           /\ \A n \in 1..Len(TopMatches) :
                  TopMatches[n].tag = dec[1].doc[n].tag
           /\ Decodes(dec[1].doc, dec[1].result, dec[1].lst)

\* a document with two elements of one repeatable name at the top level was
\* decoded to a list of two, and one of its elements holds two elements of
\* a repeatable name itself
C14_Witness ==
    /\ PlainDecoded
    /\ Len(dec[1].doc) = 2
    /\ dec[1].doc[1].tag = dec[1].doc[2].tag
    /\ dec[1].doc[1].tag \in dec[1].lst
    /\ Len(dec[1].doc[2].children) = 2
    /\ dec[1].doc[2].children[1].tag \in dec[1].lst
    /\ Len(getitem(dec[1].result, dec[1].doc[1].tag).items) = 2

\* C15: a tag outside the repeatable set that occurs several times at one
\* nesting level is mapped to the decoded value of its last occurrence only:
\* <A>1</A><A>2</A> decodes to {"A": "2"}, and nothing is raised.
C15_LastOccurrenceWins ==
    /\ PairsDecoded =>
           \A n \in 1..Len(TopMatches) :
               LET t == TopMatches[n].tag
                   occ == TopMatchesOf(t)
               IN  t \notin dec[1].lst =>
                       /\ has_key(dec[1].result, t)
                       /\ getitem(dec[1].result, t) =
                              xml2dict(occ[Len(occ)].content, dec[1].lst)
    /\ PlainDecoded =>
           \A n \in 1..Len(dec[1].doc) :
               LET t == dec[1].doc[n].tag
                   last == Occurrences(dec[1].doc, t)
                               [Len(Occurrences(dec[1].doc, t))]
                   x == getitem(dec[1].result, t)
               IN  (t \notin dec[1].lst /\ last.children = <<>>) =>
                       x.kind = "str" /\ StrippedOf(last.text, x.text)
    /\ (dec # <<>> /\ dec[1].xml = <<"<", "A", ">", "1", "<", "/", "A", ">", "<", "A", ">", "2", "<", "/", "A", ">">>
                   /\ <<"A">> \notin dec[1].lst) =>
           dec[1].result = Dict(<< <<<<"A">>, Str(<<"2">>)>> >>)

\* <A>1</A><A>2</A> was decoded without A in the list, to {"A": "2"}
C15_Witness ==
    /\ dec # <<>>
    /\ dec[1].via = "document"
    /\ dec[1].xml = <<"<", "A", ">", "1", "<", "/", "A", ">", "<", "A", ">", "2", "<", "/", "A", ">">>
    /\ <<"A">> \notin dec[1].lst
    /\ getitem(dec[1].result, <<"A">>) = Str(<<"2">>)

\* C16: every opening tag the decoder matches is paired with the nearest
\* closing tag of its name that follows at least one character of content,
\* the next match begins after that closing tag, and nesting depth is not
\* tracked: <A><A>1</A></A> decodes to {"A": "<A>1"}.
C16_NearestClosingTag ==
    dec # <<>> =>
        LET s == strip(dec[1].xml)
        IN  /\ \A n \in 1..Len(TopMatches) :
                   LET m == TopMatches[n]
                       open == <<"<">> \o m.tag \o <<">">>
                       first == m.start + Len(open)
                       close == m.stop - Len(CloseTag(m.tag)) + 1
                   IN  /\ m.tag # <<>>
                       /\ \A k \in 1..Len(m.tag) : m.tag[k] \in Word
                       /\ OccursAt(s, open, m.start)
                       /\ OccursAt(s, CloseTag(m.tag), close)
                       /\ close > first
                       /\ m.content = SubSeq(s, first, close - 1)
                       /\ \A k \in (first + 1)..(close - 1) :
                              ~OccursAt(s, CloseTag(m.tag), k)
                       /\ n < Len(TopMatches) => TopMatches[n + 1].start > m.stop
                       /\ dec[1].result.kind = "dict"
                       /\ has_key(dec[1].result, m.tag)
            /\ (s = <<"<", "A", ">", "<", "A", ">", "1", "<", "/", "A", ">", "<", "/", "A", ">">> /\ <<"A">> \notin dec[1].lst) =>
                   dec[1].result = Dict(<< <<<<"A">>, Str(<<"<", "A", ">", "1">>)>> >>)

\* <A><A>1</A></A> was decoded without A in the list, to {"A": "<A>1"}
C16_Witness ==
    /\ dec # <<>>
    /\ dec[1].xml = <<"<", "A", ">", "<", "A", ">", "1", "<", "/", "A", ">", "<", "/", "A", ">">>
    /\ <<"A">> \notin dec[1].lst
    /\ Len(TopMatches) = 1
    /\ dec[1].result = Dict(<< <<<<"A">>, Str(<<"<", "A", ">", "1">>)>> >>)

\* dict2xml has been called without rules
PlainEncoded == enc # <<>> /\ enc[1].rules = <<>>

\* what the claim expects for one element x of a list under the key el
ListElement(el, x) ==
    IF x.kind = "str" THEN Element(el, x.text)
    ELSE dict2xml(x, el, <<>>).xml

\* the elements of a list, encoded one after the other
RECURSIVE ListElements(_, _)
ListElements(el, items) ==
    IF items = <<>> THEN <<>>
    ELSE ListElement(el, items[1][2]) \o ListElements(el, Tail(items))

\* C17: for a key whose value is a list of mappings or of plain texts,
\* dict2xml emits one <key>...</key> element per list element, in list
\* order: 'AllowedOrigin': ['http://www.qq.com'] becomes
\* <AllowedOrigin>http://www.qq.com</AllowedOrigin>.
C17_ListElementsEncoded ==
    PlainEncoded =>
        \A i \in 1..Len(enc[1].d.items) :
            LET el == enc[1].d.items[i][1]
                v == enc[1].d.items[i][2]
            IN  (/\ v.kind = "list"
                 /\ \A n \in 1..Len(v.items) :
                        v.items[n][2].kind \in {"str", "dict"}) =>
                    /\ enc[1].result.raised = ""
                    /\ FindSub(enc[1].result.xml,
                               ListElements(el, v.items)) # 0

\* C18: dict2xml leaves a key out of its output only when the value of the
\* key is a number; every key with a text, a mapping or a list of elements
\* produces output, and a number that is dropped raises nothing.
C18_OnlyNumbersDropped ==
    PlainEncoded =>
        /\ enc[1].result.raised = ""
        /\ \A i \in 1..Len(enc[1].d.items) :
               LET el == enc[1].d.items[i][1]
                   v == enc[1].d.items[i][2]
                   out == FindSub(enc[1].result.xml,
                                  <<"<">> \o el \o <<">">>) # 0
               IN  /\ v.kind = "int" => ~out
                   /\ (v.kind \in {"str", "dict"}
                       \/ (v.kind = "list" /\ v.items # <<>>)) => out

\* the keys of the mappings of a node, at every level
RECURSIVE KeysIn(_)
KeysIn(v) ==
    UNION { (IF v.kind = "dict" THEN {v.items[i][1]} ELSE {})
            \cup KeysIn(v.items[i][2]) : i \in 1..Len(v.items) }

\* C19: for every key of the node that has an override rule, at the top
\* level, in nested mappings and in list elements, dict2xml puts the result
\* of the rule in the place of the default encoding of the key, and the
\* call returns the XML, with the Grant and Owner rules of put_object_acl
\* as with any other rule.
C19_RulesApplyAtEveryLevel ==
    enc # <<>> =>
        \A el \in KeysIn(enc[1].d) :
            in_rules(el, enc[1].rules) =>
                /\ enc[1].result.raised = ""
                /\ FindSub(enc[1].result.xml, <<"<">> \o el \o <<">">>) = 0
                /\ rule_of(el, enc[1].rules) = "raw" =>
                       FindSub(enc[1].result.xml, <<"<", "R", "a", "w", "/", ">">>) # 0

-----------------------------------------------------------------------------
(* errors.py: CosServiceError *)

\* the match of ERROR_RE = '<(\w+)>([^<]+)</\1>' that starts at index i of
\* s, as <<m>>, or <<>> if there is none: the content runs up to the next
\* '<', is at least one character long, and the closing tag begins there
ErrorMatchAt(s, i) ==
    LET j == OpenEnd(s, i)
    IN  IF j = 0 THEN <<>>
        ELSE LET tag == SubSeq(s, i + 1, j - 1)
                 c == FindFrom(s, <<"<">>, j + 1)
             IN  IF c >= j + 2 /\ c + Len(tag) + 2 <= Len(s)
                               /\ OccursAt(s, CloseTag(tag), c)
                 THEN << [start |-> i, tag |-> tag,
                          content |-> SubSeq(s, j + 1, c - 1),
                          stop |-> c + Len(tag) + 2] >>
                 ELSE <<>>

\* ERROR_RE.findall(msg) from index pos on: the (tag, content) groups of the
\* matches found scanning from left to right
RECURSIVE ERROR_RE_findall(_, _)
ERROR_RE_findall(s, pos) ==
    IF \E i \in pos..Len(s) : ErrorMatchAt(s, i) # <<>>
    THEN LET i == CHOOSE i \in pos..Len(s) :
                      /\ ErrorMatchAt(s, i) # <<>>
                      /\ \A k \in pos..(i - 1) : ErrorMatchAt(s, k) = <<>>
             m == ErrorMatchAt(s, i)[1]
         IN  << <<m.tag, m.content>> >> \o ERROR_RE_findall(s, m.stop + 1)
    ELSE <<>>

\* dict(pairs): one entry per key, holding the value given last
RECURSIVE dict_of_pairs(_)
dict_of_pairs(pairs) ==
    IF pairs = <<>> THEN <<>>
    ELSE LET n == Len(pairs)
         IN  dict_set(dict_of_pairs(SubSeq(pairs, 1, n - 1)),
                      pairs[n][1], pairs[n][2])

\* CosServiceError.__init__(msg, status)
CosServiceErrorInit(msg, status) ==
    [_msg |-> msg,
     _info |-> dict_of_pairs(ERROR_RE_findall(msg, 1)),
     _http_status |-> status]

\* self._info[k]: the value of the key, KeyError if the dict has no such key
info_getitem(info, k) ==
    IF \E i \in 1..Len(info) : info[i][1] = k
    THEN [raised |-> "", none |-> FALSE,
          value |-> info[CHOOSE i \in 1..Len(info) : info[i][1] = k][2]]
    ELSE [raised |-> "KeyError", none |-> FALSE, value |-> <<>>]

\* the accessors of the fields of the error and the key each of them reads
Accessors ==
    { "get_error_code", "get_error_msg", "get_trace_id", "get_request_id",
      "get_resource_location" }

AccessorKey(accessor) ==
    CASE accessor = "get_error_code" -> <<"C", "o", "d", "e">>
      [] accessor = "get_error_msg" -> <<"M", "e", "s", "s", "a", "g", "e">>
      [] accessor = "get_trace_id" -> <<"T", "r", "a", "c", "e", "I", "d">>
      [] accessor = "get_request_id" -> <<"R", "e", "q", "u", "e", "s", "t", "I", "d">>
      [] accessor = "get_resource_location" -> <<"R", "e", "s", "o", "u", "r", "c", "e">>

\* self.get_error_code() and the other four accessors
CosServiceError_get(self, accessor) ==
    info_getitem(self._info, AccessorKey(accessor))

-----------------------------------------------------------------------------
(* Inputs of the errors *)

\* largest number of fields in the body of an error response
MaxFields == 3

\* the fields a provider may put in the Error element of the body
FieldPool ==
    << <<<<"C", "o", "d", "e">>, <<"N", "o", "S", "u", "c", "h", "K", "e", "y">>>>, <<<<"M", "e", "s", "s", "a", "g", "e">>, <<"g", "o", "n", "e">>>>, <<<<"R", "e", "s", "o", "u", "r", "c", "e">>, <<"/", "k">>>>,
       <<<<"R", "e", "q", "u", "e", "s", "t", "I", "d">>, <<"r", "1">>>>, <<<<"T", "r", "a", "c", "e", "I", "d">>, <<"t", "1">>>> >>

\* the fields as text, one after the other
RECURSIVE FieldsText(_)
FieldsText(fields) ==
    IF fields = <<>> THEN <<>>
    ELSE Element(fields[1][1], fields[1][2]) \o FieldsText(Tail(fields))

\* the bodies of error responses: an Error element with some of the fields,
\* the empty body of a response to HEAD, and a text that is not XML
ErrorBodies ==
    { Element(<<"E", "r", "r", "o", "r">>, FieldsText(fields)) : fields \in Picks(FieldPool, MaxFields) }
        \cup { <<>>, <<"B", "a", "d", " ", "G", "a", "t", "e", "w", "a", "y">> }

\* the HTTP statuses of error responses
ErrorStatuses == {403, 404}

-----------------------------------------------------------------------------
(* The errors at work *)

\* raise CosServiceError(text, status) for a response with status >= 400
RaiseCosServiceError ==
    /\ error = <<>>
    /\ \E text \in ErrorBodies, status \in ErrorStatuses :
           /\ status >= 400
           /\ error' = << [obj |-> CosServiceErrorInit(text, status),
                           accessor |-> "",
                           outcome |-> [raised |-> "", none |-> FALSE,
                                        value |-> <<>>]] >>
    /\ UNCHANGED all_but_error

\* the handler of the error calls one of the accessors of its fields
CallAccessor ==
    /\ error # <<>>
    /\ error[1].accessor = ""
    /\ \E accessor \in Accessors :
           error' = << [error[1] EXCEPT
                          !.accessor = accessor,
                          !.outcome = CosServiceError_get(error[1].obj,
                                                          accessor)] >>
    /\ UNCHANGED all_but_error

\* the handler is done with the error
DropError ==
    /\ error # <<>>
    /\ error[1].accessor # ""
    /\ error' = <<>>
    /\ UNCHANGED all_but_error

NextError ==
    \/ RaiseCosServiceError
    \/ CallAccessor
    \/ DropError

SpecError == Init /\ [][NextError]_vars

-----------------------------------------------------------------------------
(* Claims about the errors *)

\* an accessor was called on an error whose body lacks the field it reads
AbsentFieldRead ==
    /\ error # <<>>
    /\ error[1].accessor # ""
    /\ FindSub(error[1].obj._msg,
               <<"<">> \o AccessorKey(error[1].accessor) \o <<">">>) = 0

\* C20: every accessor of a CosServiceError is optional: when the body of
\* the response did not hold the field, the accessor reports the field as
\* absent and raises nothing.
C20_AccessorsAreOptional ==
    AbsentFieldRead =>
        /\ error[1].outcome.raised = ""
        /\ error[1].outcome.none

-----------------------------------------------------------------------------
(* client.py: the outcome of a call, the transport and _request *)

\* The outcome of a call of the client: the class of the exception it
\* raised ("" for none), the class of the __cause__ of that exception, its
\* message, the CosServiceError object if it is one, the value returned,
\* and the trace of the steps of the call that were run.
Outcome(trace, value) ==
    [raised |-> "", cause |-> "", message |-> <<>>, error |-> <<>>,
     value |-> value, trace |-> trace]
Failure(trace, raised, cause, message) ==
    [raised |-> raised, cause |-> cause, message |-> message, error |-> <<>>,
     value |-> Str(<<>>), trace |-> trace]
ServiceFailure(trace, obj) ==
    [raised |-> "CosServiceError", cause |-> "", message |-> <<>>,
     error |-> <<obj>>, value |-> Str(<<>>), trace |-> trace]

\* None, as a returned value
None == [kind |-> "None", text |-> <<>>, items |-> <<>>]

\* the number of HTTP requests a call has issued
Requests(trace) == Len(SelectSeq(trace, LAMBDA step : step = "session.request"))

\* a _request that takes the status 400 for a success
client_request_above_400(trace, resp, parsed) ==
    LET sent == Append(trace, "session.request")
    IN  IF resp.fail # "" THEN Failure(sent, "CosClientError", resp.fail, <<>>)
        ELSE IF resp.status > 400
             THEN IF resp.read_fail # ""
                  THEN Failure(sent, "CosClientError", resp.read_fail, <<>>)
                  ELSE ServiceFailure(sent, CosServiceErrorInit(resp.body,
                                                                resp.status))
        ELSE IF parsed.raised # ""
             THEN Failure(sent, "CosClientError", parsed.raised, <<>>)
        ELSE Outcome(sent, parsed.value)

\* CosS3Client._request(method, url=..., parser=parser), the transport
\* answering with resp, and parsed being the outcome of parser(resp): a
\* CosServiceError for a status >= 400, a CosClientError from the original
\* exception for every other exception, the parsed value otherwise
client_request(trace, resp, parsed) ==
    LET sent == Append(trace, "session.request")
    IN  IF resp.fail # "" THEN Failure(sent, "CosClientError", resp.fail, <<>>)
        ELSE IF resp.status >= 400
             THEN IF resp.read_fail # ""
                  THEN Failure(sent, "CosClientError", resp.read_fail, <<>>)
                  ELSE ServiceFailure(sent, CosServiceErrorInit(resp.body,
                                                                resp.status))
        ELSE IF parsed.raised # ""
             THEN Failure(sent, "CosClientError", parsed.raised, <<>>)
        ELSE Outcome(sent, parsed.value)

\* the outcome of a parser: the value it returns or the exception it raises
Parsed(value) == [raised |-> "", value |-> value]
ParseFailed(exception) == [raised |-> exception, value |-> Str(<<>>)]

\* await resp.text() followed by parse(text)
WithText(resp, value) ==
    IF resp.read_fail # "" THEN ParseFailed(resp.read_fail) ELSE Parsed(value)

\* CosS3Client.get_service(): the url is a constant, the parser is
\* xml2dict(await resp.text(), ['Bucket'])
get_service(resp) ==
    client_request(<<>>, resp,
                   WithText(resp, xml2dict(resp.body, {<<"B", "u", "c", "k", "e", "t">>})))

\* COSResponse.result()
COSResponse_result(resp) ==
    IF resp.read_fail # ""
    THEN Failure(<<>>, resp.read_fail, "", <<>>)
    ELSE IF resp.status >= 400
         THEN ServiceFailure(<<>>, CosServiceErrorInit(resp.body, resp.status))
         ELSE Outcome(<<>>, Str(resp.body))

-----------------------------------------------------------------------------
(* Inputs of the client: the responses of the transport *)

\* a response that arrived: its status, its body, the leaf elements an error
\* body was written from, and the exception that reading the body raises, if any
Response(status, body, leaves, read_fail) ==
    [fail |-> "", status |-> status, body |-> body, leaves |-> leaves,
     read_fail |-> read_fail]

\* no response: session.request raises
NoResponse ==
    [fail |-> "ClientConnectorError", status |-> 0, body |-> <<>>,
     leaves |-> <<>>, read_fail |-> ""]

\* the greatest number of leaf elements of the Error body of a response
MaxLeaves == 2

\* the statuses of the responses, on both sides of 400
Statuses == {200, 399, 400, 404}

\* the bodies of the responses with the leaf elements they hold: an Error
\* element of some fields, the answer to get_service, and an empty body
Bodies ==
    { [body |-> Element(<<"E", "r", "r", "o", "r">>, FieldsText(fields)), leaves |-> fields] :
          fields \in Picks(FieldPool, MaxLeaves) }
    \cup { [body |-> <<"<", "L", "i", "s", "t", "A", "l", "l", "M", "y", "B", "u", "c", "k", "e", "t", "s", "R", "e", "s", "u", "l", "t", ">", "<", "O", "w", "n", "e", "r", ">", "<", "I", "D", ">", "1", "<", "/", "I", "D", ">", "<", "/", "O", "w", "n", "e", "r", ">", "<", "B", "u", "c", "k", "e", "t", "s", ">", "<", "B", "u", "c", "k", "e", "t", ">", "<", "N", "a", "m", "e", ">", "b", "<", "/", "N", "a", "m", "e", ">", "<", "/", "B", "u", "c", "k", "e", "t", ">", "<", "/", "B", "u", "c", "k", "e", "t", "s", ">", "<", "/", "L", "i", "s", "t", "A", "l", "l", "M", "y", "B", "u", "c", "k", "e", "t", "s", "R", "e", "s", "u", "l", "t", ">">>,
            leaves |-> << <<<<"I", "D">>, <<"1">>>>, <<<<"N", "a", "m", "e">>, <<"b">>>> >>],
           [body |-> <<>>, leaves |-> <<>>] }

\* the answers to list_objects, get_bucket_cors and get_object_acl: a listing
\* of two keys with percent-encoded characters, two rules of which the first
\* has two origins, and two grants
ListBucketResult ==
    <<"<", "L", "i", "s", "t", "B", "u", "c", "k", "e", "t", "R", "e", "s", "u", "l", "t", ">", "<", "P", "r", "e", "f", "i", "x", ">", "a", "%", "2", "0", "b", "<", "/", "P", "r", "e", "f", "i", "x", ">", "<", "C", "o", "n", "t", "e", "n", "t", "s", ">", "<", "K", "e", "y", ">", "k", "%", "2", "B", "1", "<", "/", "K", "e", "y", ">", "<", "/", "C", "o", "n", "t", "e", "n", "t", "s", ">", "<", "C", "o", "n", "t", "e", "n", "t", "s", ">", "<", "K", "e", "y", ">", "k", "%", "2", "B", "2", "<", "/", "K", "e", "y", ">", "<", "/", "C", "o", "n", "t", "e", "n", "t", "s", ">", "<", "/", "L", "i", "s", "t", "B", "u", "c", "k", "e", "t", "R", "e", "s", "u", "l", "t", ">">>
CORSConfiguration ==
    <<"<", "C", "O", "R", "S", "C", "o", "n", "f", "i", "g", "u", "r", "a", "t", "i", "o", "n", ">", "<", "C", "O", "R", "S", "R", "u", "l", "e", ">", "<", "I", "D", ">", "1", "<", "/", "I", "D", ">", "<", "A", "l", "l", "o", "w", "e", "d", "O", "r", "i", "g", "i", "n", ">", "a", "<", "/", "A", "l", "l", "o", "w", "e", "d", "O", "r", "i", "g", "i", "n", ">", "<", "A", "l", "l", "o", "w", "e", "d", "O", "r", "i", "g", "i", "n", ">", "b", "<", "/", "A", "l", "l", "o", "w", "e", "d", "O", "r", "i", "g", "i", "n", ">", "<", "/", "C", "O", "R", "S", "R", "u", "l", "e", ">", "<", "C", "O", "R", "S", "R", "u", "l", "e", ">", "<", "I", "D", ">", "2", "<", "/", "I", "D", ">", "<", "A", "l", "l", "o", "w", "e", "d", "O", "r", "i", "g", "i", "n", ">", "c", "<", "/", "A", "l", "l", "o", "w", "e", "d", "O", "r", "i", "g", "i", "n", ">", "<", "/", "C", "O", "R", "S", "R", "u", "l", "e", ">", "<", "/", "C", "O", "R", "S", "C", "o", "n", "f", "i", "g", "u", "r", "a", "t", "i", "o", "n", ">">>
AccessControlPolicy ==
    <<"<", "A", "c", "c", "e", "s", "s", "C", "o", "n", "t", "r", "o", "l", "P", "o", "l", "i", "c", "y", ">", "<", "A", "c", "c", "e", "s", "s", "C", "o", "n", "t", "r", "o", "l", "L", "i", "s", "t", ">", "<", "G", "r", "a", "n", "t", ">", "<", "P", "e", "r", "m", "i", "s", "s", "i", "o", "n", ">", "R", "E", "A", "D", "<", "/", "P", "e", "r", "m", "i", "s", "s", "i", "o", "n", ">", "<", "/", "G", "r", "a", "n", "t", ">", "<", "G", "r", "a", "n", "t", ">", "<", "P", "e", "r", "m", "i", "s", "s", "i", "o", "n", ">", "W", "R", "I", "T", "E", "<", "/", "P", "e", "r", "m", "i", "s", "s", "i", "o", "n", ">", "<", "/", "G", "r", "a", "n", "t", ">", "<", "/", "A", "c", "c", "e", "s", "s", "C", "o", "n", "t", "r", "o", "l", "L", "i", "s", "t", ">", "<", "/", "A", "c", "c", "e", "s", "s", "C", "o", "n", "t", "r", "o", "l", "P", "o", "l", "i", "c", "y", ">">>

Responses ==
    { Response(status, b.body, b.leaves, read_fail) :
          status \in Statuses, b \in Bodies,
          read_fail \in {"", "ClientPayloadError"} }
    \cup { Response(200, body, <<>>, read_fail) :
               body \in {ListBucketResult, CORSConfiguration, AccessControlPolicy},
               read_fail \in {"", "ClientPayloadError"} }
    \cup { NoResponse }

-----------------------------------------------------------------------------
(* utils.py: mapped, check_object_content_length, decode_result *)

\* raise CosClientError(message) in utils.py: the module binds the names it
\* imports (aiofiles, isawaitable, md5, os, re, defaultdict, unquote) and the
\* names it defines, and CosClientError is none of them, so evaluating the
\* name raises NameError before any CosClientError is built
utils_raise_CosClientError(message) ==
    [raised |-> "NameError",
     message |-> <<"name 'CosClientError' is not defined">>]

\* raise CosClientError(message) in client.py, which imports the class
client_raise_CosClientError(message) ==
    [raised |-> "CosClientError", message |-> message]

\* the table of the parameter names of the operations and the header or
\* query names they stand for
maplist ==
    << <<"ContentLength", "Content-Length">>,
       <<"ContentMD5", "Content-MD5">>,
       <<"ContentType", "Content-Type">>,
       <<"CacheControl", "Cache-Control">>,
       <<"ContentDisposition", "Content-Disposition">>,
       <<"ContentEncoding", "Content-Encoding">>,
       <<"ContentLanguage", "Content-Language">>,
       <<"Expires", "Expires">>,
       <<"ResponseContentType", "response-content-type">>,
       <<"ResponseContentLanguage", "response-content-language">>,
       <<"ResponseExpires", "response-expires">>,
       <<"ResponseCacheControl", "response-cache-control">>,
       <<"ResponseContentDisposition", "response-content-disposition">>,
       <<"ResponseContentEncoding", "response-content-encoding">>,
       <<"Metadata", "Metadata">>,
       <<"ACL", "x-cos-acl">>,
       <<"GrantFullControl", "x-cos-grant-full-control">>,
       <<"GrantWrite", "x-cos-grant-write">>,
       <<"GrantRead", "x-cos-grant-read">>,
       <<"StorageClass", "x-cos-storage-class">>,
       <<"Range", "Range">>,
       <<"IfMatch", "If-Match">>,
       <<"IfNoneMatch", "If-None-Match">>,
       <<"IfModifiedSince", "If-Modified-Since">>,
       <<"IfUnmodifiedSince", "If-Unmodified-Since">>,
       <<"CopySourceIfMatch", "x-cos-copy-source-If-Match">>,
       <<"CopySourceIfNoneMatch", "x-cos-copy-source-If-None-Match">>,
       <<"CopySourceIfModifiedSince", "x-cos-copy-source-If-Modified-Since">>,
       <<"CopySourceIfUnmodifiedSince", "x-cos-copy-source-If-Unmodified-Since">>,
       <<"VersionId", "versionId">>,
       <<"ServerSideEncryption", "x-cos-server-side-encryption">>,
       <<"SSECustomerAlgorithm", "x-cos-server-side-encryption-customer-algorithm">>,
       <<"SSECustomerKey", "x-cos-server-side-encryption-customer-key">>,
       <<"SSECustomerKeyMD5", "x-cos-server-side-encryption-customer-key-MD5">>,
       <<"SSEKMSKeyId", "x-cos-server-side-encryption-cos-kms-key-id">> >>

\* i in maplist, and maplist[i]
in_maplist(i) == \E n \in 1..Len(maplist) : maplist[n][1] = i
maplist_of(i) == maplist[CHOOSE n \in 1..Len(maplist) : maplist[n][1] = i][2]

\* mapped(headers): the state of the loop after the first n keys of
\* headers, a sequence of pairs of a parameter name and its value, a text or
\* for Metadata a dict
RECURSIVE mapped_loop(_, _)
mapped_loop(headers, n) ==
    IF n = 0 THEN [raised |-> "", message |-> <<>>, headers |-> <<>>]
    ELSE LET before == mapped_loop(headers, n - 1)
             i == headers[n][1]
         IN  IF before.raised # "" THEN before
             ELSE IF in_maplist(i)
                  THEN IF i = "Metadata"
                       THEN [before EXCEPT !.headers =
                                 dict_update(@, headers[n][2].items)]
                       ELSE [before EXCEPT !.headers =
                                 dict_set(@, maplist_of(i), headers[n][2])]
             ELSE LET e == utils_raise_CosClientError(
                               <<"No Parameter Named ", i, " Please Check It">>)
                  IN  [raised |-> e.raised, message |-> e.message,
                       headers |-> <<>>]

\* mapped(headers)
mapped(headers) == mapped_loop(headers, Len(headers))

\* Sizes in bytes are pairs hi * 2^30 + lo, with 0 <= lo < 2^30
Gi == 1024 * 1024 * 1024
Size(hi, lo) == [hi |-> hi, lo |-> lo]
SizeGreater(a, b) == a.hi > b.hi \/ (a.hi = b.hi /\ a.lo > b.lo)
SizeMinus(a, b) ==
    IF a.lo >= b.lo THEN Size(a.hi - b.hi, a.lo - b.lo)
    ELSE Size(a.hi - b.hi - 1, a.lo + Gi - b.lo)

\* SINGLE_UPLOAD_LENGTH = 5*1024*1024*1024
SINGLE_UPLOAD_LENGTH == Size(5, 0)

\* check_object_content_length(data), run to its end: data is a str or
\* bytes of data.length bytes, a file of data.length bytes read up to
\* data.position, or something else, whose length is taken for 0
check_object_content_length(data) ==
    LET content_length ==
            IF data.kind = "bytes" THEN data.length
            ELSE IF data.kind = "file" THEN SizeMinus(data.length, data.position)
            ELSE Size(0, 0)
    IN  IF SizeGreater(content_length, SINGLE_UPLOAD_LENGTH)
        THEN utils_raise_CosClientError(
                 <<"The object size you upload can not be larger than 5GB in put_object or upload_part">>)
        ELSE [raised |-> "", message |-> <<>>]

\* the value of a hexadecimal digit, -1 for any other character
HexValue(c) ==
    IF c \in Digits THEN Ord(c) - 48
    ELSE IF c \in {"A", "B", "C", "D", "E", "F"} THEN Ord(c) - 55
    ELSE IF c \in {"a", "b", "c", "d", "e", "f"} THEN Ord(c) - 87
    ELSE -1

\* urllib.parse.unquote(s) on ASCII text: every '%' followed by two
\* hexadecimal digits of a printable character becomes that character
RECURSIVE unquote(_)
unquote(s) ==
    IF s = <<>> THEN <<>>
    ELSE IF /\ s[1] = "%"
            /\ Len(s) >= 3
            /\ HexValue(s[2]) >= 0
            /\ HexValue(s[3]) >= 0
            /\ 16 * HexValue(s[2]) + HexValue(s[3]) \in (32..95) \cup (97..126)
         THEN <<Chr(16 * HexValue(s[2]) + HexValue(s[3]))>>
                  \o unquote(SubSeq(s, 4, Len(s)))
         ELSE <<s[1]>> \o unquote(Tail(s))

\* bool(v) for a value of the codec
truthy(v) == v.text # <<>> \/ v.items # <<>>

\* d[k] = v for a dict value of the codec
setitem(d, k, v) == [d EXCEPT !.items = dict_set(@, k, v)]

\* "if key in data and data[key]: data[key] = unquote(data[key])" for a
\* dict data whose value under key is a text
decode_key(data, key) ==
    IF has_key(data, key) /\ truthy(getitem(data, key))
    THEN setitem(data, key, Str(unquote(getitem(data, key).text)))
    ELSE data

\* the first loop of decode_result over key_lst
RECURSIVE decode_keys(_, _)
decode_keys(data, key_lst) ==
    IF key_lst = <<>> THEN data
    ELSE decode_keys(decode_key(data, key_lst[1]), Tail(key_lst))

\* the second loop of decode_result for one multi_key: every item of the
\* list data[multi_key[0]] has its text under multi_key[1] decoded
decode_items(data, multi_key) ==
    IF has_key(data, multi_key[1])
    THEN LET l == getitem(data, multi_key[1])
         IN  setitem(data, multi_key[1],
                     [l EXCEPT !.items =
                         [n \in 1..Len(l.items) |->
                            << <<>>, decode_key(l.items[n][2], multi_key[2]) >>]])
    ELSE data

RECURSIVE decode_multi(_, _)
decode_multi(data, multi_key_list) ==
    IF multi_key_list = <<>> THEN data
    ELSE decode_multi(decode_items(data, multi_key_list[1]),
                      Tail(multi_key_list))

\* the exception that "if key in item and item[key]: item[key] =
\* unquote(item[key])" raises, "" for none: a text item that holds key as a
\* substring cannot be indexed by it, and unquote splits its argument,
\* which only a text allows
decode_key_raises(item, key) ==
    IF item.kind # "dict"
    THEN IF FindSub(item.text, key) # 0 THEN "TypeError" ELSE ""
    ELSE IF /\ has_key(item, key)
            /\ truthy(getitem(item, key))
            /\ getitem(item, key).kind # "str"
         THEN "AttributeError"
         ELSE ""

\* the first exception of a sequence of outcomes, "" for none
RECURSIVE first_raised(_)
first_raised(outcomes) ==
    IF outcomes = <<>> THEN ""
    ELSE IF outcomes[1] # "" THEN outcomes[1]
    ELSE first_raised(Tail(outcomes))

\* the exceptions of the second loop of decode_result for one multi_key, in
\* the order of the items
decode_items_raise(data, multi_key) ==
    IF data.kind # "dict"
    THEN <<IF FindSub(data.text, multi_key[1]) # 0 THEN "TypeError" ELSE "">>
    ELSE IF has_key(data, multi_key[1])
    THEN LET l == getitem(data, multi_key[1])
         IN  [n \in 1..Len(l.items) |->
                 decode_key_raises(l.items[n][2], multi_key[2])]
    ELSE <<>>

RECURSIVE decode_multi_raise(_, _)
decode_multi_raise(data, multi_key_list) ==
    IF multi_key_list = <<>> THEN <<>>
    ELSE decode_items_raise(data, multi_key_list[1])
             \o decode_multi_raise(data, Tail(multi_key_list))

\* decode_result(data, key_lst, multi_key_list): data with the texts under
\* the keys of key_lst, and under multi_key[1] in the items of the list
\* data[multi_key[0]], replaced by their unquoted texts, or the first
\* exception on the way
decode_result(data, key_lst, multi_key_list) ==
    LET raised == first_raised(
                      [n \in 1..Len(key_lst) |-> decode_key_raises(data, key_lst[n])]
                      \o decode_multi_raise(data, multi_key_list))
    IN  IF raised # "" THEN [raised |-> raised, value |-> Str(<<>>)]
        ELSE IF data.kind # "dict" THEN [raised |-> "", value |-> data]
        ELSE [raised |-> "",
              value |-> decode_multi(decode_keys(data, key_lst), multi_key_list)]

-----------------------------------------------------------------------------
(* client.py: the operations of CosS3Client *)

\* CosS3Client._get_url(bucket, key=''): its first statement,
\* Key = Key.lstrip('/'), reads the local Key before any assignment (the
\* parameters are bucket and key), so every call raises UnboundLocalError
client_get_url(bucket, key) ==
    [raised |-> "UnboundLocalError",
     message |-> <<"local variable 'Key' referenced before assignment">>,
     url |-> <<>>]

\* the headers of the responses of the model
ResponseHeaders ==
    << <<"Content-Length", Str(<<"0">>)>>, <<"ETag", Str(<<"e">>)>> >>

\* the value an operation returns when it awaits _request without
\* returning its result
Discard(outcome) ==
    IF outcome.raised = "" THEN [outcome EXCEPT !.value = None] ELSE outcome

\* CosS3Client.create_bucket(Bucket, **kwargs)
create_bucket(Bucket, kwargs, resp) ==
    LET headers == mapped(kwargs)
        url == client_get_url(Bucket, <<>>)
    IN  IF headers.raised # ""
        THEN Failure(<<"mapped">>, headers.raised, "", headers.message)
        ELSE IF url.raised # ""
        THEN Failure(<<"mapped", "_get_url">>, url.raised, "", url.message)
        ELSE Discard(client_request(<<"mapped", "_get_url">>, resp,
                                    WithText(resp, Str(resp.body))))

\* key.startswith("response") for the header names of maplist
ResponseKeys ==
    {"response-content-type", "response-content-language", "response-expires",
     "response-cache-control", "response-content-disposition",
     "response-content-encoding"}

\* CosS3Client.get_object(Bucket, Key, **kwargs): the request is sent by the
\* operation itself, inside its own try block, which begins after mapped and
\* _get_url
get_object(Bucket, Key, kwargs, resp) ==
    LET headers == mapped(kwargs)
        params == SelectSeq(headers.headers,
                            LAMBDA h : h[1] \in ResponseKeys \cup {"versionId"})
        final_headers == SelectSeq(headers.headers,
                            LAMBDA h : h[1] \notin ResponseKeys \cup {"versionId"})
        url == client_get_url(Bucket, Key)
        sent == <<"mapped", "_get_url", "session.request">>
    IN  IF headers.raised # ""
        THEN Failure(<<"mapped">>, headers.raised, "", headers.message)
        ELSE IF url.raised # ""
        THEN Failure(<<"mapped", "_get_url">>, url.raised, "", url.message)
        ELSE IF resp.fail # ""
        THEN Failure(sent, "CosClientError", resp.fail, <<>>)
        ELSE IF resp.status >= 400
             THEN IF resp.read_fail # ""
                  THEN Failure(sent, "CosClientError", resp.read_fail, <<>>)
                  ELSE ServiceFailure(sent, CosServiceErrorInit(resp.body,
                                                                resp.status))
        ELSE Outcome(sent, Dict(dict_set(ResponseHeaders, "Body",
                                         Str(<<"StreamBody">>))))

\* CosS3Client.put_object(Bucket, Body, Key, EnableMD5=False, **kwargs),
\* which awaits check_object_content_length(Body) first
put_object(Bucket, Body, Key, kwargs, resp) ==
    LET checked == check_object_content_length(Body)
        headers == mapped(kwargs)
        url == client_get_url(Bucket, Key)
        before == <<"check_object_content_length", "mapped", "_get_url">>
    IN  IF checked.raised # ""
        THEN Failure(SubSeq(before, 1, 1), checked.raised, "", checked.message)
        ELSE IF headers.raised # ""
        THEN Failure(SubSeq(before, 1, 2), headers.raised, "", headers.message)
        ELSE IF url.raised # ""
        THEN Failure(before, url.raised, "", url.message)
        ELSE client_request(before, resp, Parsed(Dict(ResponseHeaders)))

\* CosS3Client.upload_part(Bucket, Key, Body, PartNumber, UploadId,
\* **kwargs): check_object_content_length(Body) is called and not awaited,
\* which builds a coroutine that never runs, so no length is checked
upload_part(Bucket, Key, Body, kwargs, resp) ==
    LET headers == mapped(kwargs)
        url == client_get_url(Bucket, Key)
        before == <<"mapped", "_get_url">>
    IN  IF headers.raised # ""
        THEN Failure(SubSeq(before, 1, 1), headers.raised, "", headers.message)
        ELSE IF url.raised # ""
        THEN Failure(before, url.raised, "", url.message)
        ELSE Failure(before, "NameError", "",
                     <<"name 'EnableMD5' is not defined">>)

\* key in data, for a value of the codec: a key of a dict, a substring
\* of a text
contains(data, key) ==
    IF data.kind = "dict" THEN has_key(data, key)
    ELSE FindSub(data.text, key) # 0

\* the parser of list_objects after xml2dict: decode_result unless the
\* caller chose the encoding
list_objects_decode(data, decodeflag) ==
    IF ~decodeflag THEN Parsed(data)
    ELSE decode_result(data,
                       <<<<"P", "r", "e", "f", "i", "x">>, <<"M", "a", "r", "k", "e", "r">>, <<"N", "e", "x", "t", "M", "a", "r", "k", "e", "r">>>>,
                       << <<<<"C", "o", "n", "t", "e", "n", "t", "s">>, <<"K", "e", "y">>>>, <<<<"C", "o", "m", "m", "o", "n", "P", "r", "e", "f", "i", "x", "e", "s">>, <<"P", "r", "e", "f", "i", "x">>>> >>)

\* the parser of list_objects: xml2dict with Contents and CommonPrefixes as
\* lists, then the decoding
list_objects_parser(xml, decodeflag) ==
    list_objects_decode(xml2dict(xml, {<<"C", "o", "n", "t", "e", "n", "t", "s">>, <<"C", "o", "m", "m", "o", "n", "P", "r", "e", "f", "i", "x", "e", "s">>}), decodeflag)

\* CosS3Client.list_objects(Bucket, ..., EncodingType="", **kwargs):
\* mapped, then _get_url, then the test of EncodingType
list_objects(Bucket, EncodingType, kwargs, resp) ==
    LET headers == mapped(kwargs)
        url == client_get_url(Bucket, <<>>)
        before == <<"mapped", "_get_url", "EncodingType">>
        e == client_raise_CosClientError(<<"EncodingType must be url">>)
    IN  IF headers.raised # ""
        THEN Failure(SubSeq(before, 1, 1), headers.raised, "", headers.message)
        ELSE IF url.raised # ""
        THEN Failure(SubSeq(before, 1, 2), url.raised, "", url.message)
        ELSE IF EncodingType # <<>> /\ EncodingType # <<"u", "r", "l">>
        THEN Failure(before, e.raised, "", e.message)
        ELSE client_request(before, resp,
                 IF resp.read_fail # "" THEN ParseFailed(resp.read_fail)
                 ELSE list_objects_parser(resp.body, EncodingType = <<>>))

\* the parser of list_parts after xml2dict: decode_result(d, ['Key'], [])
\* unless the caller chose the encoding
list_parts_decode(d, decodeflag) ==
    IF ~decodeflag THEN Parsed(d) ELSE decode_result(d, <<<<"K", "e", "y">>>>, <<>>)

\* the parser of list_parts: xml2dict with Part as a list, then the decoding
list_parts_parser(xml, decodeflag) ==
    list_parts_decode(xml2dict(xml, {<<"P", "a", "r", "t">>}), decodeflag)

\* CosS3Client.list_parts(Bucket, Key, UploadId, ..., EncodingType='',
\* **kwargs): mapped, then the test of EncodingType, then _get_url
list_parts(Bucket, Key, EncodingType, kwargs, resp) ==
    LET headers == mapped(kwargs)
        url == client_get_url(Bucket, Key)
        before == <<"mapped", "EncodingType", "_get_url">>
        e == client_raise_CosClientError(<<"EncodingType must be url">>)
    IN  IF headers.raised # ""
        THEN Failure(SubSeq(before, 1, 1), headers.raised, "", headers.message)
        ELSE IF EncodingType # <<>> /\ EncodingType # <<"u", "r", "l">>
        THEN Failure(SubSeq(before, 1, 2), e.raised, "", e.message)
        ELSE IF url.raised # ""
        THEN Failure(before, url.raised, "", url.message)
        ELSE client_request(before, resp,
                 IF resp.read_fail # "" THEN ParseFailed(resp.read_fail)
                 ELSE list_parts_parser(resp.body, EncodingType = <<>>))

\* lst = []; lst.append(v): the list of the one value v
list_of(v) == List(<<v>>)

\* the inner loop of the parser of get_bucket_cors for one rule: each of
\* allow_lst that the rule holds and that is not a list becomes a list
RECURSIVE cors_rule(_, _)
cors_rule(rule, allow_lst) ==
    IF allow_lst = <<>> THEN rule
    ELSE LET text == allow_lst[1]
         IN  cors_rule(IF has_key(rule, text) /\ getitem(rule, text).kind # "list"
                       THEN setitem(rule, text, list_of(getitem(rule, text)))
                       ELSE rule,
                       Tail(allow_lst))

\* the loop of the parser of get_bucket_cors over the rules, a list: a rule
\* that is a text and holds one of allow_lst as a substring cannot be
\* indexed by it
cors_rules(data, rules, allow_lst) ==
    IF \E n \in 1..Len(rules.items) :
          /\ rules.items[n][2].kind # "dict"
          /\ \E m \in 1..Len(allow_lst) :
                 contains(rules.items[n][2], allow_lst[m])
    THEN ParseFailed("TypeError")
    ELSE Parsed(setitem(data, <<"C", "O", "R", "S", "R", "u", "l", "e">>,
             [rules EXCEPT !.items =
                 [n \in 1..Len(rules.items) |->
                    << <<>>, IF rules.items[n][2].kind = "dict"
                             THEN cors_rule(rules.items[n][2], allow_lst)
                             ELSE rules.items[n][2] >>]]))

\* the parser of get_bucket_cors after xml2dict: data['CORSRule'] becomes a
\* list if data holds it and it is none, then the rules are gone through
get_bucket_cors_wrap(data, rule) ==
    IF ~contains(data, <<"C", "O", "R", "S", "R", "u", "l", "e">>) THEN Parsed(data)
    ELSE IF data.kind # "dict" THEN ParseFailed("TypeError")
    ELSE cors_rules(data,
                    IF rule.kind = "list" THEN rule ELSE list_of(rule),
                    <<<<"A", "l", "l", "o", "w", "e", "d", "O", "r", "i", "g", "i", "n">>, <<"A", "l", "l", "o", "w", "e", "d", "M", "e", "t", "h", "o", "d">>, <<"A", "l", "l", "o", "w", "e", "d", "H", "e", "a", "d", "e", "r">>,
                      <<"E", "x", "p", "o", "s", "e", "H", "e", "a", "d", "e", "r">>>>)

\* data.get(key), None when data does not hold key
get(data, key) == IF has_key(data, key) THEN getitem(data, key) ELSE None

get_bucket_cors_data(data) == get_bucket_cors_wrap(data, get(data, <<"C", "O", "R", "S", "R", "u", "l", "e">>))

\* the parser of get_bucket_cors: xml2dict(xml) without repeatable tags,
\* then the wrapping
get_bucket_cors_parser(xml) == get_bucket_cors_data(xml2dict(xml, {}))

\* CosS3Client.get_bucket_cors(Bucket, **kwargs)
get_bucket_cors(Bucket, kwargs, resp) ==
    LET headers == mapped(kwargs)
        url == client_get_url(Bucket, <<>>)
        before == <<"mapped", "_get_url">>
    IN  IF headers.raised # ""
        THEN Failure(SubSeq(before, 1, 1), headers.raised, "", headers.message)
        ELSE IF url.raised # ""
        THEN Failure(before, url.raised, "", url.message)
        ELSE client_request(before, resp,
                 IF resp.read_fail # "" THEN ParseFailed(resp.read_fail)
                 ELSE get_bucket_cors_parser(resp.body))

\* str.replace(old, new) for a text old of any length
RECURSIVE replace_text(_, _, _)
replace_text(s, old, new) ==
    LET at == FindSub(s, old)
    IN  IF at = 0 THEN s
        ELSE SubSeq(s, 1, at - 1) \o new
                 \o replace_text(SubSeq(s, at + Len(old), Len(s)), old, new)

\* the parser of get_object_acl after xml2dict:
\* data['AccessControlList']['Grant'] is wrapped into a list when it is a
\* dict
get_object_acl_wrap(data, acl) ==
    IF data.kind # "dict" THEN ParseFailed("TypeError")
    ELSE IF ~has_key(data, <<"A", "c", "c", "e", "s", "s", "C", "o", "n", "t", "r", "o", "l", "L", "i", "s", "t">>) THEN ParseFailed("KeyError")
    ELSE IF acl.kind # "dict" THEN ParseFailed("TypeError")
    ELSE IF ~has_key(acl, <<"G", "r", "a", "n", "t">>) THEN ParseFailed("KeyError")
    ELSE IF getitem(acl, <<"G", "r", "a", "n", "t">>).kind = "dict"
    THEN Parsed(setitem(data, <<"A", "c", "c", "e", "s", "s", "C", "o", "n", "t", "r", "o", "l", "L", "i", "s", "t">>,
                        setitem(acl, <<"G", "r", "a", "n", "t">>, list_of(getitem(acl, <<"G", "r", "a", "n", "t">>)))))
    ELSE Parsed(data)

get_object_acl_data(data) ==
    get_object_acl_wrap(data, get(data, <<"A", "c", "c", "e", "s", "s", "C", "o", "n", "t", "r", "o", "l", "L", "i", "s", "t">>))

\* the replacements of the parser of get_object_acl: the namespace prefixes
\* are removed and type becomes Type
acl_replace(text) ==
    replace_text(
      replace_text(
        replace_text(
          replace_text(
            replace_text(text, <<"{", "h", "t", "t", "p", ":", "/", "/", "w", "w", "w", ".", "q", "c", "l", "o", "u", "d", ".", "c", "o", "m", "/", "d", "o", "c", "u", "m", "e", "n", "t", "/", "p", "r", "o", "d", "u", "c", "t", "/", "4", "3", "6", "/", "7", "7", "5", "1", "}">>, <<>>),
            <<"{", "h", "t", "t", "p", "s", ":", "/", "/", "c", "l", "o", "u", "d", ".", "t", "e", "n", "c", "e", "n", "t", ".", "c", "o", "m", "/", "d", "o", "c", "u", "m", "e", "n", "t", "/", "p", "r", "o", "d", "u", "c", "t", "/", "4", "3", "6", "}">>, <<>>),
          <<"{", "h", "t", "t", "p", ":", "/", "/", "d", "o", "c", ".", "s", "3", ".", "a", "m", "a", "z", "o", "n", "a", "w", "s", ".", "c", "o", "m", "/", "2", "0", "0", "6", "-", "0", "3", "-", "0", "1", "}">>, <<>>),
        <<"{", "h", "t", "t", "p", ":", "/", "/", "w", "w", "w", ".", "w", "3", ".", "o", "r", "g", "/", "2", "0", "0", "1", "/", "X", "M", "L", "S", "c", "h", "e", "m", "a", "-", "i", "n", "s", "t", "a", "n", "c", "e", "}">>, <<>>),
      <<"t", "y", "p", "e">>, <<"T", "y", "p", "e">>)

\* the parser of get_object_acl: the replacements, xml2dict(xml) without
\* repeatable tags, then the wrapping
get_object_acl_parser(text) == get_object_acl_data(xml2dict(acl_replace(text), {}))

\* CosS3Client.get_object_acl(Bucket, Key, **kwargs)
get_object_acl(Bucket, Key, kwargs, resp) ==
    LET headers == mapped(kwargs)
        url == client_get_url(Bucket, Key)
        before == <<"mapped", "_get_url">>
    IN  IF headers.raised # ""
        THEN Failure(SubSeq(before, 1, 1), headers.raised, "", headers.message)
        ELSE IF url.raised # ""
        THEN Failure(before, url.raised, "", url.message)
        ELSE client_request(before, resp,
                 IF resp.read_fail # "" THEN ParseFailed(resp.read_fail)
                 ELSE get_object_acl_parser(resp.body))

-----------------------------------------------------------------------------
(* Inputs of the client: the arguments of the operations *)

\* the greatest number of keyword arguments of a call
MaxKwargs == 2

\* the keyword arguments of the calls: three parameters of maplist, one of
\* them Metadata, and two names that maplist does not hold
KwargPool ==
    { <<"ACL", Str(<<"p", "r", "i", "v", "a", "t", "e">>)>>,
      <<"ContentType", Str(<<"t", "e", "x", "t", "/", "p", "l", "a", "i", "n">>)>>,
      <<"Metadata", Dict(<< <<"x-cos-meta-a", Str(<<"1">>)>> >>)>>,
      <<"Foo", Str(<<"1">>)>>,
      <<"Acl", Str(<<"p", "r", "i", "v", "a", "t", "e">>)>> }

\* the sequences of at most n keyword arguments with distinct names
RECURSIVE KwargsUpTo(_)
KwargsUpTo(n) ==
    IF n = 0 THEN {<<>>}
    ELSE LET shorter == KwargsUpTo(n - 1)
         IN  shorter \cup
             { Append(kw, pair) : kw \in {k \in shorter : Len(k) = n - 1},
                                  pair \in KwargPool }
Kwargs ==
    { kw \in KwargsUpTo(MaxKwargs) :
          \A i, j \in 1..Len(kw) : kw[i][1] = kw[j][1] => i = j }

\* a keyword argument whose name maplist does not hold
Unknown(kwargs) == \E n \in 1..Len(kwargs) : ~in_maplist(kwargs[n][1])

\* the values of EncodingType: left out, 'url', and another
EncodingTypes == {<<>>, <<"u", "r", "l">>, <<"g", "z", "i", "p">>}

\* what is uploaded: bytes and files whose remaining length lies on both
\* sides of SINGLE_UPLOAD_LENGTH, and an object without a length
Uploads ==
    { [kind |-> "bytes", length |-> l, position |-> Size(0, 0)] :
          l \in {Size(0, 5), Size(5, 0), Size(5, 1)} }
    \cup { [kind |-> "file", length |-> Size(5, 1), position |-> p] :
               p \in {Size(0, 0), Size(0, 1)} }
    \cup { [kind |-> "file", length |-> Size(6, 0), position |-> p] :
               p \in {Size(1, 0), Size(0, Gi - 1)} }
    \cup { [kind |-> "other", length |-> Size(0, 0), position |-> Size(0, 0)] }

\* the number of bytes an upload would send
UploadLength(Body) ==
    IF Body.kind = "file" THEN SizeMinus(Body.length, Body.position)
    ELSE Body.length

NoUpload == [kind |-> "none", length |-> Size(0, 0), position |-> Size(0, 0)]

-----------------------------------------------------------------------------
(* The calls of the client: op holds the call that has ended and has not
   been taken by the caller yet *)

Call(name, kwargs, EncodingType, Body, resp, outcome) ==
    [name |-> name, kwargs |-> kwargs, EncodingType |-> EncodingType,
     Body |-> Body, resp |-> resp, outcome |-> outcome]

GetService ==
    /\ op = <<>>
    /\ \E resp \in Responses :
          op' = <<Call("get_service", <<>>, <<>>, NoUpload, resp,
                       get_service(resp))>>
    /\ UNCHANGED all_but_client

Result ==
    /\ op = <<>>
    /\ \E resp \in Responses :
          /\ resp.fail = ""
          /\ op' = <<Call("result", <<>>, <<>>, NoUpload, resp,
                          COSResponse_result(resp))>>
    /\ UNCHANGED all_but_client

CreateBucket ==
    /\ op = <<>>
    /\ \E kwargs \in Kwargs, resp \in Responses :
          op' = <<Call("create_bucket", kwargs, <<>>, NoUpload, resp,
                       create_bucket(<<"b">>, kwargs, resp))>>
    /\ UNCHANGED all_but_client

GetObject ==
    /\ op = <<>>
    /\ \E kwargs \in Kwargs, resp \in Responses :
          op' = <<Call("get_object", kwargs, <<>>, NoUpload, resp,
                       get_object(<<"b">>, <<"k">>, kwargs, resp))>>
    /\ UNCHANGED all_but_client

PutObject ==
    /\ op = <<>>
    /\ \E Body \in Uploads, kwargs \in Kwargs, resp \in Responses :
          op' = <<Call("put_object", kwargs, <<>>, Body, resp,
                       put_object(<<"b">>, Body, <<"k">>, kwargs, resp))>>
    /\ UNCHANGED all_but_client

UploadPart ==
    /\ op = <<>>
    /\ \E Body \in Uploads, kwargs \in Kwargs, resp \in Responses :
          op' = <<Call("upload_part", kwargs, <<>>, Body, resp,
                       upload_part(<<"b">>, <<"k">>, Body, kwargs, resp))>>
    /\ UNCHANGED all_but_client

ListObjects ==
    /\ op = <<>>
    /\ \E EncodingType \in EncodingTypes, kwargs \in Kwargs, resp \in Responses :
          op' = <<Call("list_objects", kwargs, EncodingType, NoUpload, resp,
                       list_objects(<<"b">>, EncodingType, kwargs, resp))>>
    /\ UNCHANGED all_but_client

ListParts ==
    /\ op = <<>>
    /\ \E EncodingType \in EncodingTypes, kwargs \in Kwargs, resp \in Responses :
          op' = <<Call("list_parts", kwargs, EncodingType, NoUpload, resp,
                       list_parts(<<"b">>, <<"k">>, EncodingType, kwargs, resp))>>
    /\ UNCHANGED all_but_client

GetBucketCors ==
    /\ op = <<>>
    /\ \E kwargs \in Kwargs, resp \in Responses :
          op' = <<Call("get_bucket_cors", kwargs, <<>>, NoUpload, resp,
                       get_bucket_cors(<<"b">>, kwargs, resp))>>
    /\ UNCHANGED all_but_client

GetObjectAcl ==
    /\ op = <<>>
    /\ \E kwargs \in Kwargs, resp \in Responses :
          op' = <<Call("get_object_acl", kwargs, <<>>, NoUpload, resp,
                       get_object_acl(<<"b">>, <<"k">>, kwargs, resp))>>
    /\ UNCHANGED all_but_client

\* the caller takes the outcome
ClientReturn ==
    /\ op # <<>>
    /\ op' = <<>>
    /\ UNCHANGED all_but_client

NextClient ==
    \/ GetService
    \/ Result
    \/ CreateBucket
    \/ GetObject
    \/ PutObject
    \/ UploadPart
    \/ ListObjects
    \/ ListParts
    \/ GetBucketCors
    \/ GetObjectAcl
    \/ ClientReturn

SpecClient == Init /\ [][NextClient]_vars

\* the call that has ended
Ended == op # <<>>
TheCall == op[1]

-----------------------------------------------------------------------------
(* Claims about the errors of the client *)

\* the call that has ended met a response: the request was sent, an answer
\* came, and its body could be read
Answered ==
    /\ Ended
    /\ TheCall.name = "result" \/ Requests(TheCall.outcome.trace) = 1
    /\ TheCall.resp.fail = ""
    /\ TheCall.resp.read_fail = ""

\* C21: every response with a status >= 400 whose body was received is
\* reported as a CosServiceError that carries the raw body, the status and
\* one parsed field per leaf element <Tag>value</Tag> of the body, in
\* CosS3Client._request and in COSResponse.result; a response with a status
\* below 400 never produces a CosServiceError
C21_ServiceErrorCarriesBodyStatusFields ==
    Answered =>
        LET resp == TheCall.resp
            outcome == TheCall.outcome
        IN  IF resp.status >= 400
            THEN /\ outcome.raised = "CosServiceError"
                 /\ Len(outcome.error) = 1
                 /\ outcome.error[1]._msg = resp.body
                 /\ outcome.error[1]._http_status = resp.status
                 /\ outcome.error[1]._info = resp.leaves
            ELSE /\ outcome.raised # "CosServiceError"
                 /\ outcome.error = <<>>

\* a 404 whose body holds the Code NoSuchKey and a Message, met by
\* get_service and reported with the code and the status
C21_Witness ==
    /\ Answered
    /\ TheCall.name = "get_service"
    /\ TheCall.resp.status = 404
    /\ Len(TheCall.resp.leaves) = 2
    /\ TheCall.resp.leaves[1] = <<<<"C", "o", "d", "e">>, <<"N", "o", "S", "u", "c", "h", "K", "e", "y">>>>
    /\ TheCall.resp.leaves[2][1] = <<"M", "e", "s", "s", "a", "g", "e">>
    /\ TheCall.outcome.raised = "CosServiceError"
    /\ CosServiceError_get(TheCall.outcome.error[1], "get_error_code").value = <<"N", "o", "S", "u", "c", "h", "K", "e", "y">>
    /\ TheCall.outcome.error[1]._http_status = 404

\* the operations that take keyword arguments
WithKwargs ==
    {"create_bucket", "get_object", "put_object", "upload_part",
     "list_objects", "list_parts", "get_bucket_cors", "get_object_acl"}

\* C22: in CosS3Client._request (reached through get_service) and in
\* get_object, every failure that is not a service error reaches the caller
\* as a CosClientError whose cause is the original exception, and a
\* CosServiceError raised for a status >= 400 reaches the caller unchanged
C22_OtherFailuresAreClientErrors ==
    Ended /\ TheCall.name \in {"get_service", "get_object"}
          /\ TheCall.outcome.raised # "" =>
        LET resp == TheCall.resp
            outcome == TheCall.outcome
        IN  IF outcome.raised = "CosServiceError"
            THEN /\ resp.fail = ""
                 /\ resp.status >= 400
                 /\ outcome.error = <<CosServiceErrorInit(resp.body, resp.status)>>
            ELSE /\ outcome.raised = "CosClientError"
                 /\ outcome.cause # ""
                 /\ outcome.cause \in {resp.fail, resp.read_fail}

\* the part of C22 that is about _request alone
RequestFailuresAreClientErrors ==
    Ended /\ TheCall.name = "get_service" => C22_OtherFailuresAreClientErrors

\* a network failure and a failure while reading the body, met by _request
RequestFailuresWitness ==
    /\ Ended
    /\ TheCall.name = "get_service"
    /\ TheCall.outcome.raised = "CosClientError"
    /\ TheCall.outcome.cause \in {"ClientConnectorError", "ClientPayloadError"}

\* C23: an operation called with a keyword argument whose name is not in
\* maplist fails with a CosClientError naming that parameter, and no request
\* is issued for that call
C23_UnknownParameterIsClientError ==
    Ended /\ TheCall.name \in WithKwargs /\ Unknown(TheCall.kwargs) =>
        /\ TheCall.outcome.raised = "CosClientError"
        /\ \E n \in 1..Len(TheCall.kwargs) :
              /\ ~in_maplist(TheCall.kwargs[n][1])
              /\ \E m \in 1..Len(TheCall.outcome.message) :
                    TheCall.outcome.message[m] = TheCall.kwargs[n][1]
        /\ Requests(TheCall.outcome.trace) = 0

\* the part of C23 that holds: no request is issued for such a call
UnknownParameterSendsNothing ==
    Ended /\ TheCall.name \in WithKwargs /\ Unknown(TheCall.kwargs) =>
        /\ TheCall.outcome.raised # ""
        /\ Requests(TheCall.outcome.trace) = 0

\* an upload is larger than the limit of a single upload
TooLarge(Body) == SizeGreater(UploadLength(Body), SINGLE_UPLOAD_LENGTH)

\* C24: put_object and upload_part called with a body larger than
\* SINGLE_UPLOAD_LENGTH fail with a CosClientError before any request is
\* issued, and the check of the length is run on every call
C24_TooLargeIsClientError ==
    Ended /\ TheCall.name \in {"put_object", "upload_part"} =>
        /\ TheCall.outcome.trace # <<>>
        /\ TheCall.outcome.trace[1] = "check_object_content_length"
        /\ TooLarge(TheCall.Body) =>
              /\ TheCall.outcome.raised = "CosClientError"
              /\ Requests(TheCall.outcome.trace) = 0

\* the same for put_object alone and any exception
PutObjectTooLargeFails ==
    Ended /\ TheCall.name = "put_object" /\ TooLarge(TheCall.Body) =>
        /\ TheCall.outcome.trace = <<"check_object_content_length">>
        /\ TheCall.outcome.raised # ""

-----------------------------------------------------------------------------
(* Claims about the answers of the client *)

\* the call that has ended was given known keyword arguments and an answer
\* with a status below 400 whose body can be read
Served ==
    /\ Ended
    /\ ~Unknown(TheCall.kwargs)
    /\ TheCall.resp.fail = ""
    /\ TheCall.resp.read_fail = ""
    /\ TheCall.resp.status < 400

\* the content of the root element of a decoded answer, the answer itself
\* if it has no single root element
Inside(data) ==
    IF data.kind = "dict" /\ Len(data.items) = 1 /\ data.items[1][2].kind = "dict"
    THEN data.items[1][2]
    ELSE data

\* the text under key is the percent-decoded text under key of raw, if raw
\* holds key
DecodedUnder(data, raw, key) ==
    has_key(raw, key) /\ getitem(raw, key).kind = "str" =>
        /\ has_key(data, key)
        /\ getitem(data, key) = Str(unquote(getitem(raw, key).text))

\* every item of the list under key has its text under field decoded
DecodedItems(data, raw, key, field) ==
    has_key(raw, key) =>
        /\ has_key(data, key)
        /\ Len(getitem(data, key).items) = Len(getitem(raw, key).items)
        /\ \A n \in 1..Len(getitem(raw, key).items) :
              DecodedUnder(getitem(data, key).items[n][2],
                           getitem(raw, key).items[n][2], field)

\* every listed field of the answer data is the percent-decoded field of the
\* answer raw as the service sent it
ListingDecoded(data, raw) ==
    /\ DecodedUnder(data, raw, <<"P", "r", "e", "f", "i", "x">>)
    /\ DecodedUnder(data, raw, <<"M", "a", "r", "k", "e", "r">>)
    /\ DecodedUnder(data, raw, <<"N", "e", "x", "t", "M", "a", "r", "k", "e", "r">>)
    /\ DecodedUnder(data, raw, <<"K", "e", "y">>)
    /\ DecodedItems(data, raw, <<"C", "o", "n", "t", "e", "n", "t", "s">>, <<"K", "e", "y">>)
    /\ DecodedItems(data, raw, <<"C", "o", "m", "m", "o", "n", "P", "r", "e", "f", "i", "x", "e", "s">>,
                    <<"P", "r", "e", "f", "i", "x">>)

\* the tags the parser of a listing decodes as lists
ListingTags(name) ==
    IF name = "list_objects"
    THEN {<<"C", "o", "n", "t", "e", "n", "t", "s">>,
          <<"C", "o", "m", "m", "o", "n", "P", "r", "e", "f", "i", "x", "e", "s">>}
    ELSE {<<"P", "a", "r", "t">>}

\* C26: list_objects and list_parts called with an EncodingType other than
\* 'url' raise CosClientError and send no request; called without
\* EncodingType they return the answer with every listed field
\* percent-decoded; called with EncodingType='url' they return the fields as
\* the service sent them
C26_ListingsAreDecoded ==
    Ended /\ TheCall.name \in {"list_objects", "list_parts"}
          /\ ~Unknown(TheCall.kwargs) =>
        LET outcome == TheCall.outcome
            raw == xml2dict(TheCall.resp.body, ListingTags(TheCall.name))
        IN  IF TheCall.EncodingType \notin {<<>>, <<"u", "r", "l">>}
            THEN /\ outcome.raised = "CosClientError"
                 /\ Requests(outcome.trace) = 0
            ELSE Served =>
                    /\ outcome.raised = ""
                    /\ Requests(outcome.trace) = 1
                    /\ IF TheCall.EncodingType = <<>>
                       THEN ListingDecoded(Inside(outcome.value), Inside(raw))
                       ELSE outcome.value = raw

\* the part of C26 that holds: list_parts refuses an EncodingType other than
\* 'url' with a CosClientError before any request
ListPartsRefusesEncoding ==
    Ended /\ TheCall.name = "list_parts" /\ ~Unknown(TheCall.kwargs)
          /\ TheCall.EncodingType \notin {<<>>, <<"u", "r", "l">>} =>
        /\ TheCall.outcome.raised = "CosClientError"
        /\ Requests(TheCall.outcome.trace) = 0

\* the number of occurrences of the text pat in s
RECURSIVE CountSub(_, _)
CountSub(s, pat) ==
    IF FindSub(s, pat) = 0 THEN 0
    ELSE 1 + CountSub(SubSeq(s, FindSub(s, pat) + Len(pat), Len(s)), pat)

\* data holds under key a list of as many items as the body holds elements
\* of that tag, if it holds any
ListOfAll(data, key, body) ==
    CountSub(body, <<"<">> \o key \o <<">">>) >= 1 =>
        /\ has_key(data, key)
        /\ getitem(data, key).kind = "list"
        /\ Len(getitem(data, key).items) = CountSub(body, <<"<">> \o key \o <<">">>)

\* C27: get_bucket_cors and get_object_acl return every repeated element of
\* the answer as a list in the order of the answer: the n >= 1 CORSRule
\* elements as a list of length n, the n Grant elements as a list of length n
C27_RepeatedElementsAreLists ==
    Served /\ TheCall.name \in {"get_bucket_cors", "get_object_acl"} =>
        LET outcome == TheCall.outcome
            body == TheCall.resp.body
        IN  /\ outcome.raised = ""
            /\ IF TheCall.name = "get_bucket_cors"
               THEN ListOfAll(Inside(outcome.value),
                              <<"C", "O", "R", "S", "R", "u", "l", "e">>, body)
               ELSE ListOfAll(Inside(Inside(outcome.value)),
                              <<"G", "r", "a", "n", "t">>, body)

-----------------------------------------------------------------------------
(* client.py: close and wait_close

   closer.handler is CosS3Client._close_handler: 0 for None, else the number
   of the task it holds. closer.tasks are the tasks ensure_future has made
   of session.close(), in the order they were started, each "pending" or
   "done". closer.waits are the calls of wait_close(), each awaiting a task
   or returned. The event loop runs one step at a time: a call of close(),
   a call of wait_close() up to its await, the end of a task, or a
   wait_close() resuming after the task it awaits *)

\* the greatest number of tasks and of calls of wait_close() in a run
MaxTasks == 3
MaxWaits == 2

\* the tasks that have not ended
PendingTasks(tasks) == {t \in 1..Len(tasks) : tasks[t] = "pending"}

\* CosS3Client.close(): a new task, held by _close_handler in place of
\* whatever it held
close(c) ==
    [c EXCEPT !.tasks = Append(@, "pending"), !.handler = Len(c.tasks) + 1]

\* the end of wait_close() after its await: _close_handler = None; the call
\* returns, and the tasks still pending at that moment are noted
wait_close_return(c, w) ==
    [c EXCEPT !.handler = 0,
              !.waits[w] = [@ EXCEPT !.pc = "returned",
                                     !.pending = PendingTasks(c.tasks),
                                     !.handler = 0]]

\* CosS3Client.wait_close() up to its await: close() if _close_handler is
\* None, then the task _close_handler holds is awaited; awaiting a task that
\* is done does not suspend
wait_close(c) ==
    LET closed == IF c.handler = 0 THEN close(c) ELSE c
        w == Len(c.waits) + 1
        awaiting == [closed EXCEPT !.waits =
                        Append(@, [pc |-> "awaiting", task |-> closed.handler,
                                   started |-> c.handler = 0,
                                   before |-> 1..Len(c.tasks),
                                   pending |-> {}, handler |-> closed.handler])]
    IN  IF closed.tasks[closed.handler] = "done"
        THEN wait_close_return(awaiting, w)
        ELSE awaiting

Close ==
    /\ Len(closer.tasks) < MaxTasks
    /\ closer' = close(closer)
    /\ UNCHANGED all_but_close

WaitClose ==
    /\ Len(closer.waits) < MaxWaits
    /\ closer.handler = 0 => Len(closer.tasks) < MaxTasks
    /\ closer' = wait_close(closer)
    /\ UNCHANGED all_but_close

\* session.close() ends in one of the tasks
TaskDone ==
    /\ \E t \in PendingTasks(closer.tasks) :
          closer' = [closer EXCEPT !.tasks[t] = "done"]
    /\ UNCHANGED all_but_close

\* a wait_close() resumes after the task it awaits has ended
WaitCloseResume ==
    /\ \E w \in 1..Len(closer.waits) :
          /\ closer.waits[w].pc = "awaiting"
          /\ closer.tasks[closer.waits[w].task] = "done"
          /\ closer' = wait_close_return(closer, w)
    /\ UNCHANGED all_but_close

NextClose ==
    \/ Close
    \/ WaitClose
    \/ TaskDone
    \/ WaitCloseResume

SpecClose == Init /\ [][NextClose]_vars

\* C28: for every interleaving of close() and wait_close(), when a
\* wait_close() returns, every task started by an earlier close() has ended
\* and _close_handler is None; a wait_close() that finds no close pending
\* starts one itself
C28_WaitCloseWaitsForEveryClose ==
    \A w \in 1..Len(closer.waits) :
        /\ closer.waits[w].started => closer.waits[w].task \notin closer.waits[w].before
        /\ closer.waits[w].pc = "returned" =>
              /\ closer.waits[w].pending = {}
              /\ closer.waits[w].handler = 0

\* the part of C28 that holds: when a wait_close() returns, the task it
\* awaited has ended, _close_handler is None at that moment, and a
\* wait_close() that finds _close_handler None starts a task itself
WaitCloseWaitsForItsTask ==
    \A w \in 1..Len(closer.waits) :
        /\ closer.waits[w].started => closer.waits[w].task \notin closer.waits[w].before
        /\ closer.waits[w].pc = "returned" =>
              /\ closer.tasks[closer.waits[w].task] = "done"
              /\ closer.waits[w].task \notin closer.waits[w].pending
              /\ closer.waits[w].handler = 0

\* a wait_close() has returned while a task is pending
WaitCloseReturnedEarly ==
    \E w \in 1..Len(closer.waits) :
        /\ closer.waits[w].pc = "returned"
        /\ closer.waits[w].pending # {}

-----------------------------------------------------------------------------
(* utils.py: StreamBody.get_stream_to_file

   download holds the call under way or finished: the Content-Length header
   of the response (<<>> if it has none), the bytes the stream has still to
   deliver, and what the call has done so far *)

\* the greatest number of full chunks a stream delivers
MaxChunks == 2

\* reader.read(1024) returns at most this many bytes
ChunkSize == 1024

\* the lengths of the streams and the values of Content-Length
Lengths ==
    {0, 1} \cup {k * ChunkSize : k \in 1..MaxChunks}
           \cup {k * ChunkSize + 1 : k \in 1..(MaxChunks - 1)}

\* get_stream_to_file up to the first read: without Content-Length it raises
\* IOError; otherwise the file is opened
GetStreamToFile ==
    /\ download = <<>>
    /\ \E header \in {<<>>} \cup {<<n>> : n \in Lengths}, stream \in Lengths :
          download' =
              << [header |-> header, stream |-> stream,
                  pc |-> IF header = <<>> THEN "done" ELSE "reading",
                  outcome |-> IF header = <<>> THEN "IOError" ELSE "",
                  opened |-> header # <<>>, file_open |-> header # <<>>,
                  reads |-> 0, file_len |-> 0, written |-> 0,
                  closed |-> FALSE] >>
    /\ UNCHANGED all_but_stream

\* chunk = await reader.read(1024) gives a chunk that is not empty, a full
\* one, half of one or what is left of the stream, which is counted and
\* written to the file
ReadChunk ==
    /\ download # <<>>
    /\ download[1].pc = "reading"
    /\ download[1].stream > 0
    /\ \E n \in {ChunkSize \div 2, download[1].stream, ChunkSize} :
          /\ n <= download[1].stream
          /\ n <= ChunkSize
          /\ download' = << [download[1] EXCEPT !.stream = @ - n,
                                                !.reads = @ + 1,
                                                !.file_len = @ + n,
                                                !.written = @ + n] >>
    /\ UNCHANGED all_but_stream

\* chunk = await reader.read(1024) gives the empty chunk at the end of the
\* stream: the file is flushed and closed, and the call raises IOError if
\* file_len differs from Content-Length, else closes the response and
\* returns
EndOfStream ==
    /\ download # <<>>
    /\ download[1].pc = "reading"
    /\ download[1].stream = 0
    /\ download' =
          << [download[1] EXCEPT
                 !.reads = @ + 1,
                 !.file_open = FALSE,
                 !.pc = "done",
                 !.outcome = IF download[1].file_len # download[1].header[1]
                             THEN "IOError" ELSE "returned",
                 !.closed = download[1].file_len = download[1].header[1]] >>
    /\ UNCHANGED all_but_stream

\* the caller takes the outcome
StreamReturn ==
    /\ download # <<>>
    /\ download[1].pc = "done"
    /\ download' = <<>>
    /\ UNCHANGED all_but_stream

NextStream ==
    \/ GetStreamToFile
    \/ ReadChunk
    \/ EndOfStream
    \/ StreamReturn

SpecStream == Init /\ [][NextStream]_vars

\* the call of get_stream_to_file has ended
Downloaded == download # <<>> /\ download[1].pc = "done"

\* C29: get_stream_to_file returns normally if and only if the response has
\* a Content-Length header and the number of bytes read from the stream and
\* written to the file equals it; without the header it raises IOError
\* before the file is opened or any byte is read; and on every exit, by
\* return or by IOError, the response is closed
C29_DownloadChecksLengthAndCloses ==
    Downloaded =>
        /\ download[1].outcome \in {"returned", "IOError"}
        /\ download[1].outcome = "returned" <=>
              /\ download[1].header # <<>>
              /\ download[1].file_len = download[1].header[1]
              /\ download[1].written = download[1].file_len
        /\ download[1].header = <<>> =>
              /\ download[1].outcome = "IOError"
              /\ ~download[1].opened
              /\ download[1].reads = 0
        /\ download[1].closed

\* the part of C29 that holds: the outcome of the call
DownloadChecksLength ==
    Downloaded =>
        /\ download[1].outcome \in {"returned", "IOError"}
        /\ download[1].outcome = "returned" <=>
              /\ download[1].header # <<>>
              /\ download[1].file_len = download[1].header[1]
              /\ download[1].written = download[1].file_len
        /\ download[1].header = <<>> =>
              /\ download[1].outcome = "IOError"
              /\ ~download[1].opened
              /\ download[1].reads = 0
        /\ download[1].closed <=> download[1].outcome = "returned"
        /\ ~download[1].file_open

\* a download of more than one chunk has returned, and one has raised
\* IOError for a stream shorter than Content-Length
DownloadWitness ==
    /\ Downloaded
    /\ download[1].reads > 2
    /\ download[1].outcome = "returned"

-----------------------------------------------------------------------------
(* Claims about the request after Auth.__call__ *)

\* the values of the Authorization headers among headers, in order
AuthorizationValues(headers) ==
    LET found == SelectSeq(headers,
                     LAMBDA h : lower(h[1]) = <<"a", "u", "t", "h", "o", "r", "i", "z", "a", "t", "i", "o", "n">>)
    IN  [n \in 1..Len(found) |-> found[n][2]]

\* the headers the request was built with
BuiltHeaders(req) ==
    IF req.state = "built" \/ call = <<>> THEN req.headers
    ELSE IF req.state = "sent" THEN SubSeq(req.headers, 1, Len(req.headers) - 1)
    ELSE SubSeq(req.headers, 1, Len(req.headers) - 2)

\* update_auth acts on the request
Signing == request # <<>> /\ request' # <<>> /\ request' # request

\* C30: update_auth leaves the method, the URL, the query and the headers
\* the request had unchanged; with an Auth it leaves a request that was
\* built without an Authorization header with exactly one, equal to the
\* value get_auth computed for it, also when the request is signed once
\* more; with auth None it leaves the request without one
C30_SigningLeavesOneAuthorization ==
    [][Signing =>
          /\ request'[1].method = request[1].method
          /\ request'[1].path = request[1].path
          /\ request'[1].query = request[1].query
          /\ Len(request'[1].headers) >= Len(request[1].headers)
          /\ SubSeq(request'[1].headers, 1, Len(request[1].headers))
                = request[1].headers
          /\ AuthorizationValues(BuiltHeaders(request[1])) = <<>> =>
                IF auth = <<>>
                THEN AuthorizationValues(request'[1].headers) = <<>>
                ELSE AuthorizationValues(request'[1].headers) = <<call'[1].c.auth>>
      ]_vars

\* the part of C30 that holds: the same for the first signing of a request
FirstSigningLeavesOneAuthorization ==
    [][Signing /\ request[1].state = "built" =>
          /\ request'[1].method = request[1].method
          /\ request'[1].path = request[1].path
          /\ request'[1].query = request[1].query
          /\ SubSeq(request'[1].headers, 1, Len(request[1].headers))
                = request[1].headers
          /\ AuthorizationValues(request[1].headers) = <<>> =>
                IF auth = <<>>
                THEN AuthorizationValues(request'[1].headers) = <<>>
                ELSE AuthorizationValues(request'[1].headers) = <<call'[1].c.auth>>
      ]_vars

\* a request built without an Authorization header and signed twice holds
\* two of them
SignedTwice ==
    /\ request # <<>>
    /\ request[1].state = "signed again"
    /\ Len(AuthorizationValues(request[1].headers)) = 2

-----------------------------------------------------------------------------
-----------------------------------------------------------------------------
(* Concurrent callers of the signer and the codec *)

\* the number of callers that call the signer and the codec concurrently
MaxCallers == 2
Callers == 1..MaxCallers

\* a caller that is in no call
Idle ==
    [fn |-> "", pc |-> "idle", args |-> <<>>, locals |-> <<>>,
     result |-> <<>>]

\* the node the callers pass to dict2xml
SharedNodes ==
    { Dict(<< <<<<"A">>, Str(<<"1">>)>>, <<<<"B">>, Str(<<"2">>)>> >>),
      Dict(<< <<<<"R", "u", "l", "e">>, List(<< Dict(<< <<<<"I", "D">>, Str(<<"1">>)>> >>),
                                Dict(<< <<<<"I", "D">>, Str(<<"2">>)>> >>) >>)>> >>) }

\* the headers and the params the callers pass to get_auth
SharedHeaders == { << <<<<"h", "o", "s", "t">>, <<"h">>>>, <<<<"x", "-", "c", "o", "s", "-", "a", "c", "l">>, <<"p", "+", "r">>>> >> }
SharedParams == { << <<<<"b">>, <<"2", " ", "+">>>>, <<<<"a">>, <<"1">>>> >> }

\* the bodies the callers pass to xml2dict
SharedXmls ==
    { RenderAll(<< Leaf(<<"A">>, <<"1">>), Leaf(<<"A">>, <<"2">>) >>),
      <<"a">> }

\* the lst a caller passes to xml2dict: none, so that lst is the default
\* argument, or a list of its own
OwnLists == { <<>>, << {<<"A">>} >> }

\* the objects the callers share: the Auth of one client, the headers, the
\* params and the node they all pass, and the default arguments rules={} of
\* dict2xml and lst=[] of xml2dict, which the def statements create once
Share ==
    /\ shared = <<>>
    /\ \E secretid \in SecretIds, secretkey \in SecretKeys,
          expire \in Expires, headers \in SharedHeaders,
          params \in SharedParams, d \in SharedNodes :
           shared' = << [self |-> AuthInit(secretid, secretkey, expire),
                         headers |-> headers, params |-> params, d |-> d,
                         rules |-> <<>>, lst |-> {},
                         calls |-> [i \in Callers |-> Idle]] >>
    /\ UNCHANGED all_but_shared

\* the shared objects of s
Objects(s) ==
    [self |-> s.self, headers |-> s.headers, params |-> s.params, d |-> s.d,
     rules |-> s.rules, lst |-> s.lst]

\* the call of caller i becomes c, and the shared objects become objects
Step(i, c, objects) ==
    shared' = << [self |-> objects.self, headers |-> objects.headers,
                  params |-> objects.params, d |-> objects.d,
                  rules |-> objects.rules, lst |-> objects.lst,
                  calls |-> [shared[1].calls EXCEPT ![i] = c]] >>

\* Auth.get_auth from options = {...} to options['q-sign-time'] = ..., with
\* t the value time() returns: what the statements leave in self and in
\* the locals
get_auth_options(self, t) ==
    [self |-> self,
     locals |-> [secretid |-> self.secretid, expire |-> self.expire, t |-> t]]

\* Auth.get_auth from options['q-header-list'] = ... to return auth: what
\* the statements leave in self, headers and params, and the value returned
get_auth_return(self, headers, params, args, locals) ==
    [self |-> self, headers |-> headers, params |-> params,
     result |-> get_auth(AuthInit(locals.secretid, self.secretkey,
                                  locals.expire),
                         args.method, args.url, args.expired, headers, params,
                         locals.t)]

\* root = ensure_bytes(root); xml = [b'<%s>' % root]: the locals of
\* dict2xml before its loop, n the number of keys of d the loop has taken
dict2xml_enter(root) == [n |-> 0, xml |-> Returned(<<>>)]

\* one pass of the loop "for el in d" of dict2xml: what it leaves in d, in
\* rules and in the locals
dict2xml_pass(d, rules, locals) ==
    [d |-> d, rules |-> rules,
     locals |-> [n |-> locals.n + 1,
                 xml |-> dict2xml_append(locals.xml,
                             dict2xml_element(d.items[locals.n + 1][1],
                                              d.items[locals.n + 1][2],
                                              rules))]]

\* xml = ensure_str(xml).strip(); root = XML_RE.findall(xml); ret = {};
\* lst_dict = defaultdict(list): the locals of xml2dict before its loop, n
\* the number of pairs of root the loop has taken
xml2dict_enter(text) ==
    [text |-> text, root |-> XML_RE_findall(text), n |-> 0,
     acc |-> [ret |-> <<>>, lst_dict |-> <<>>]]

\* one pass that appended k to lst, as a loop that collected the repeated
\* tags in its default argument would
xml2dict_pass_grows_lst(lst, locals) ==
    [lst |-> lst \cup {locals.root[locals.n + 1][1]},
     locals |-> [text |-> locals.text, root |-> locals.root,
                 n |-> locals.n + 1,
                 acc |-> xml2dict_step(locals.acc,
                                       locals.root[locals.n + 1][1],
                                       xml2dict(locals.root[locals.n + 1][2],
                                                lst),
                                       lst)]]

\* one pass of the loop "for k, v in root" of xml2dict: what it leaves in
\* lst and in the locals
xml2dict_pass(lst, locals) ==
    [lst |-> lst,
     locals |-> [text |-> locals.text, root |-> locals.root,
                 n |-> locals.n + 1,
                 acc |-> xml2dict_step(locals.acc,
                                       locals.root[locals.n + 1][1],
                                       xml2dict(locals.root[locals.n + 1][2],
                                                lst),
                                       lst)]]

\* if not root: return xml; ...; ret.update(lst_dict); return ret
xml2dict_leave(locals) ==
    IF locals.root = <<>> THEN Str(locals.text) ELSE xml2dict_return(locals.acc)

\* the lst of the call c: its own, or the default argument
lst_of(s, c) == IF c.args.lst = <<>> THEN s.lst ELSE c.args.lst[1]

\* caller i calls auth.get_auth(method, url, expired, headers, params)
GetAuthCall(i) ==
    /\ shared # <<>>
    /\ shared[1].calls[i].pc = "idle"
    /\ \E method \in DirectMethods, url \in Paths, expired \in DirectExpired :
           Step(i, [fn |-> "get_auth", pc |-> "options",
                    args |-> [method |-> method, url |-> url,
                              expired |-> expired],
                    locals |-> <<>>, result |-> <<>>],
                Objects(shared[1]))
    /\ UNCHANGED all_but_shared

\* get_auth of caller i reads the clock and the credentials
GetAuthOptions(i) ==
    /\ shared # <<>>
    /\ shared[1].calls[i].fn = "get_auth"
    /\ shared[1].calls[i].pc = "options"
    /\ \E t \in Times :
           Step(i, [shared[1].calls[i] EXCEPT
                        !.pc = "sign",
                        !.locals = get_auth_options(shared[1].self, t).locals],
                [Objects(shared[1]) EXCEPT
                        !.self = get_auth_options(shared[1].self, t).self])
    /\ UNCHANGED all_but_shared

\* get_auth of caller i signs the headers and the params and returns
GetAuthReturn(i) ==
    /\ shared # <<>>
    /\ shared[1].calls[i].fn = "get_auth"
    /\ shared[1].calls[i].pc = "sign"
    /\ Step(i, [shared[1].calls[i] EXCEPT
                    !.pc = "done",
                    !.result = get_auth_return(shared[1].self,
                                   shared[1].headers, shared[1].params,
                                   shared[1].calls[i].args,
                                   shared[1].calls[i].locals).result],
            [Objects(shared[1]) EXCEPT
                    !.self = get_auth_return(shared[1].self,
                                   shared[1].headers, shared[1].params,
                                   shared[1].calls[i].args,
                                   shared[1].calls[i].locals).self,
                    !.headers = get_auth_return(shared[1].self,
                                   shared[1].headers, shared[1].params,
                                   shared[1].calls[i].args,
                                   shared[1].calls[i].locals).headers,
                    !.params = get_auth_return(shared[1].self,
                                   shared[1].headers, shared[1].params,
                                   shared[1].calls[i].args,
                                   shared[1].calls[i].locals).params])
    /\ UNCHANGED all_but_shared

\* caller i calls dict2xml(d, root), as the put_* methods of the client do
Dict2xmlEnter(i) ==
    /\ shared # <<>>
    /\ shared[1].calls[i].pc = "idle"
    /\ \E root \in Roots :
           Step(i, [fn |-> "dict2xml", pc |-> "loop",
                    args |-> [root |-> root],
                    locals |-> dict2xml_enter(root),
                    result |-> <<>>],
                Objects(shared[1]))
    /\ UNCHANGED all_but_shared

\* dict2xml of caller i takes the next key of d
Dict2xmlPass(i) ==
    /\ shared # <<>>
    /\ shared[1].calls[i].fn = "dict2xml"
    /\ shared[1].calls[i].pc = "loop"
    /\ shared[1].calls[i].locals.xml.raised = ""
    /\ shared[1].calls[i].locals.n < Len(shared[1].d.items)
    /\ Step(i, [shared[1].calls[i] EXCEPT
                    !.locals = dict2xml_pass(shared[1].d, shared[1].rules,
                                   shared[1].calls[i].locals).locals],
            [Objects(shared[1]) EXCEPT
                    !.d = dict2xml_pass(shared[1].d, shared[1].rules,
                              shared[1].calls[i].locals).d,
                    !.rules = dict2xml_pass(shared[1].d, shared[1].rules,
                                  shared[1].calls[i].locals).rules])
    /\ UNCHANGED all_but_shared

\* dict2xml of caller i leaves its loop and returns
Dict2xmlReturn(i) ==
    /\ shared # <<>>
    /\ shared[1].calls[i].fn = "dict2xml"
    /\ shared[1].calls[i].pc = "loop"
    /\ \/ shared[1].calls[i].locals.xml.raised # ""
       \/ shared[1].calls[i].locals.n = Len(shared[1].d.items)
    /\ Step(i, [shared[1].calls[i] EXCEPT
                    !.pc = "done",
                    !.result = dict2xml_return(shared[1].calls[i].args.root,
                                   shared[1].calls[i].locals.xml)],
            Objects(shared[1]))
    /\ UNCHANGED all_but_shared

\* caller i calls xml2dict(xml) or xml2dict(xml, lst), as the parsers of
\* the get_* methods of the client do
Xml2dictEnter(i) ==
    /\ shared # <<>>
    /\ shared[1].calls[i].pc = "idle"
    /\ \E xml \in SharedXmls, lst \in OwnLists :
           Step(i, [fn |-> "xml2dict", pc |-> "loop",
                    args |-> [xml |-> xml, lst |-> lst],
                    locals |-> xml2dict_enter(strip(ensure_str(xml))),
                    result |-> <<>>],
                Objects(shared[1]))
    /\ UNCHANGED all_but_shared

\* xml2dict of caller i takes the next pair of root
Xml2dictPass(i) ==
    /\ shared # <<>>
    /\ shared[1].calls[i].fn = "xml2dict"
    /\ shared[1].calls[i].pc = "loop"
    /\ shared[1].calls[i].locals.n < Len(shared[1].calls[i].locals.root)
    /\ Step(i, [shared[1].calls[i] EXCEPT
                    !.locals = xml2dict_pass(
                                   lst_of(shared[1], shared[1].calls[i]),
                                   shared[1].calls[i].locals).locals],
            [Objects(shared[1]) EXCEPT
                    !.lst = IF shared[1].calls[i].args.lst = <<>>
                            THEN xml2dict_pass(shared[1].lst,
                                     shared[1].calls[i].locals).lst
                            ELSE shared[1].lst])
    /\ UNCHANGED all_but_shared

\* xml2dict of caller i leaves its loop and returns
Xml2dictReturn(i) ==
    /\ shared # <<>>
    /\ shared[1].calls[i].fn = "xml2dict"
    /\ shared[1].calls[i].pc = "loop"
    /\ shared[1].calls[i].locals.n = Len(shared[1].calls[i].locals.root)
    /\ Step(i, [shared[1].calls[i] EXCEPT
                    !.pc = "done",
                    !.result = xml2dict_leave(shared[1].calls[i].locals)],
            Objects(shared[1]))
    /\ UNCHANGED all_but_shared

\* caller i has used the value returned to it
CallerReturn(i) ==
    /\ shared # <<>>
    /\ shared[1].calls[i].pc = "done"
    /\ shared' = << [shared[1] EXCEPT !.calls[i] = Idle] >>
    /\ UNCHANGED all_but_shared

NextShared ==
    \/ Share
    \/ \E i \in Callers : GetAuthCall(i)
    \/ \E i \in Callers : GetAuthOptions(i)
    \/ \E i \in Callers : GetAuthReturn(i)
    \/ \E i \in Callers : Dict2xmlEnter(i)
    \/ \E i \in Callers : Dict2xmlPass(i)
    \/ \E i \in Callers : Dict2xmlReturn(i)
    \/ \E i \in Callers : Xml2dictEnter(i)
    \/ \E i \in Callers : Xml2dictPass(i)
    \/ \E i \in Callers : Xml2dictReturn(i)
    \/ \E i \in Callers : CallerReturn(i)

SpecShared == Init /\ [][NextShared]_vars

\* what the call c returns when it runs alone on the shared objects of s,
\* at the time c read from the clock
Alone(s, c) ==
    CASE c.fn = "get_auth" ->
             get_auth(s.self, c.args.method, c.args.url, c.args.expired,
                      s.headers, s.params, c.locals.t)
      [] c.fn = "dict2xml" -> dict2xml(s.d, c.args.root, s.rules)
      [] c.fn = "xml2dict" -> xml2dict(c.args.xml, lst_of(s, c))

\* C25: Auth.get_auth, dict2xml and xml2dict change no shared state: every
\* step of a call leaves the credentials (secretid, secretkey, expire), the
\* headers, the params and the node passed to it, and the default arguments
\* rules and lst as they were, and however the steps of concurrent calls
\* interleave, each call returns what it returns when it runs alone.
C25_CallsChangeNoSharedState ==
    [][(shared # <<>> /\ shared' # <<>>) =>
          /\ Objects(shared'[1]) = Objects(shared[1])
          /\ \A i \in Callers :
                 shared'[1].calls[i].pc = "done" =>
                     shared'[1].calls[i].result =
                         Alone(shared[1], shared'[1].calls[i])]_vars

\* two calls of xml2dict with the default lst are inside their loops at the
\* same time, one has taken a pair of its root and the other both of its own
C25_Witness ==
    /\ shared # <<>>
    /\ \E i, j \in Callers :
           /\ i # j
           /\ shared[1].calls[i].fn = "xml2dict"
           /\ shared[1].calls[i].pc = "loop"
           /\ shared[1].calls[i].args.lst = <<>>
           /\ shared[1].calls[i].locals.n = 1
           /\ shared[1].calls[j].fn = "xml2dict"
           /\ shared[1].calls[j].pc = "loop"
           /\ shared[1].calls[j].args.lst = <<>>
           /\ shared[1].calls[j].locals.n = 2

=============================================================================
